---- MODULE Spec2Model ----
(***************************************************************************)
(* The create-event listener of pumpfun-token-display                      *)
(* (src/lib/models/PumpfunEventListener.ts in its three revisions) with    *)
(* the two stores it writes to.                                            *)
(*                                                                         *)
(* One step of the model is one run-to-completion segment of the Node.js   *)
(* event loop: a callback (log line, timer tick, signal, completed I/O)    *)
(* together with every continuation that needs no further I/O.  The only   *)
(* suspension points are the metadata fetch, the MongoDB insertOne and     *)
(* removeOnLogsListener; the SQLite insert (better-sqlite3) is synchronous *)
(* so the code after "await insertTokenToSQL" runs in the same segment.    *)
(***************************************************************************)
EXTENDS Integers, Sequences, FiniteSets, TLC

\* Number of log lines the upstream subscription delivers in a behaviour.
MaxEvents == 2

\* logSubscriptionId: number | null
Null == -1

\* The revisions of PumpfunEventListener.ts in the repository.
Revisions == {"sqliteMongo", "sqliteMongoV1", "postgres"}

\* The two SQLite+MongoDB revisions own a mongoQueue, a flush timer and a
\* final flush; the Postgres revision has none of them.
HasMongoQueue(rev) == rev \in {"sqliteMongo", "sqliteMongoV1"}

\* What a delivered log line can be, by the branch of the callback and of
\* parseEventFromLog it takes.
LineKinds == {"noMarker", "otherData", "malformed", "otherEvent", "create"}

\* The uri field of a decoded CreateEvent, by how the enricher treats it.
UriKinds == {"empty", "invalid", "valid"}

\* Result of getTokenMetadataFromUri: null, or a TokenMetadata whose
\* description is '' when the document has none and whose image is
\* undefined when the document has none.
NullMeta == [isNull |-> TRUE, description |-> "", image |-> "undefined"]

FullMeta == [isNull |-> FALSE, description |-> "desc", image |-> "img"]

BareMeta == [isNull |-> FALSE, description |-> "", image |-> "undefined"]

FetchResults == {NullMeta, FullMeta, BareMeta}

\* Outcomes of collection.insertOne in MongoDB: inserted, rejected by the
\* unique index (code 11000: another writer stored the token already), or
\* any other error.
MongoOutcomes == {"inserted", "duplicate", "error"}

\* Outcomes of the primary store's INSERT statement.
StoreOutcomes == {"ok", "fail"}

FlushKinds == {"timer", "forced", "final"}

EventIds == 1 .. MaxEvents

VARIABLES
    revision,             \* which revision of the listener runs
    procState,            \* "init", "running", "exited", "crashed"
    exitCode,             \* Null while the process lives
    sqliteInitialized,    \* PumpFunEventListener.sqliteInitialized
    mongoUpdateInterval,  \* TRUE while the setInterval handle is armed
    logSubscriptionId,    \* Null or the id returned by onLogs
    mongoQueue,           \* PumpFunEventListener.mongoQueue
    newTokens,            \* PumpFunEventListener.newTokens
    sqlite,               \* rows of the primary store
    mongo,                \* tokenAddresses present in the secondary store
    pipelines,            \* processCreateEvent calls awaiting the metadata fetch
    flushes,              \* flushMongoQueue invocations, by what triggered them
    stopPc,               \* position of stopListening/shutdown
    nextEvent,            \* number of the next log line
    eventLog,             \* history: what became of each log line
    metaNull,             \* history: events whose metadata lookup returned null
    primaryWrites,        \* history: documents handed to the primary insert, in order
    enqueued,             \* history: tokenAddresses ever pushed to mongoQueue
    mongoAttempted,       \* history: tokenAddresses for which insertOne was called
    \* one call of getTokenMetadataFromUri(uri, maxRetries)
    fetchUri,             \* the uri argument, a string
    maxRetries,           \* the maxRetries argument
    fetchPc,              \* "start", "request" (awaiting fetch), "backoff", "done"
    attempt,              \* the loop variable
    fetchResult,          \* "none" while running, then "null" or "metadata"
    requests,             \* history: number of fetch() calls issued
    delays,               \* history: the waits between attempts, in ms
    outcomes,             \* history: how each issued request ended
    \* one log line through the onLogs callback
    logLine,              \* the line: whether it has the marker, and its payload text
    linePc,               \* "idle", "delivered", "fetching", "done"
    decodedEvent,         \* the CreateEvent given to processCreateEvent, or NoEvent
    processCreateEventCalls, \* history: number of processCreateEvent invocations
    \* the primary store under its writers
    engine,               \* "sqlite" (db/sqlite.ts) or "postgres" (db/queries.ts)
    tokens,               \* the rows of the tokens table
    now,                  \* the clock behind datetime('now') and new Date()
    lastCall,             \* history: the last write call and what it returned
    backfillPc,           \* "idle", or "run" inside the loop of getFreshTokenList
    newAddresses,         \* getFreshTokenList: the addresses to process
    addressIndex,         \* getFreshTokenList: the loop variable i, from 1
    tokenBatch,           \* getFreshTokenList: the batch being collected
    unenriched,           \* history: tokens of this run resolved without metadata
    backfillRun,          \* history: what this run listed, found stored and attempted
    \* one call into the chain by a PumpFunTokenFetcher
    fetcherRetries,       \* PumpFunTokenFetcher.retries
    chainCall,            \* the call: its function, position, responses, waits, result
    \* the secondary store next to the primary one, under the sync utility
    collection,           \* the documents of the MongoDB collection 'tokens'
    syncStatus,           \* what checkSyncStatus returned last
    \* one metadata document through the image extraction
    metadata,             \* the parsed JSON of the metadata uri
    imageUrl,             \* the image of the TokenMetadata built from it
    \* the listener object under calls of its two public methods
    onLogsListeners,      \* the connection: per subscription id, whether it is active
    intervals,            \* the timers: per setInterval handle, whether it is active
    lifecycleCalls,       \* the calls of startListening/stopListening, in call order
    \* the backfill loops followed over a whole run
    bondingAddressesFile, \* bonding_addresses.json: the addresses, << >> while missing
    cacheFile,            \* pumpfun_token_list.json: the records appended so far
    missingOnChain        \* the addresses the chain has no complete answer for

listenerVars == << revision, procState, exitCode, sqliteInitialized, mongoUpdateInterval,
           logSubscriptionId, mongoQueue, newTokens, sqlite, mongo, pipelines,
           flushes, stopPc, nextEvent, eventLog, metaNull, primaryWrites,
           enqueued, mongoAttempted >>

fetchVars == << fetchUri, maxRetries, fetchPc, attempt, fetchResult, requests,
                delays, outcomes >>

\* The library functions that are also exercised on their own, outside a
\* running listener.
lineVars == << logLine, linePc, decodedEvent, processCreateEventCalls >>

storeVars == << engine, tokens, now, lastCall, backfillPc, newAddresses,
                addressIndex, tokenBatch, unenriched, backfillRun >>

chainVars == << fetcherRetries, chainCall >>

syncVars == << collection, syncStatus >>

imageVars == << metadata, imageUrl >>

lifecycleVars == << onLogsListeners, intervals, lifecycleCalls >>

runVars == << bondingAddressesFile, cacheFile, missingOnChain >>

toolVars == << chainVars, syncVars, imageVars, lifecycleVars, runVars >>

libraryVars == << fetchVars, lineVars, storeVars, toolVars >>

vars == << listenerVars, libraryVars >>

\* A flushMongoQueue invocation that is not running and has never run.
IdleFlush ==
    [pc |-> "idle", tokensToSync |-> << >>, i |-> 0,
     successCount |-> 0, errorCount |-> 0,
     ok |-> {}, failed |-> {}, during |-> {}]

InitListener ==
    /\ revision \in Revisions
    /\ procState = "init"
    /\ exitCode = Null
    /\ sqliteInitialized = FALSE
    /\ mongoUpdateInterval = FALSE
    /\ logSubscriptionId = Null
    /\ mongoQueue = << >>
    /\ newTokens = << >>
    /\ sqlite = {}
    /\ mongo = {}
    /\ pipelines = {}
    /\ flushes = [f \in FlushKinds |-> IdleFlush]
    /\ stopPc = "idle"
    /\ nextEvent = 1
    /\ eventLog = [e \in EventIds |-> "none"]
    /\ metaNull = {}
    /\ primaryWrites = << >>
    /\ enqueued = {}
    /\ mongoAttempted = {}

\* No call of getTokenMetadataFromUri is being followed.
FetchIdle ==
    /\ fetchUri = << >>
    /\ maxRetries = 0
    /\ fetchPc = "idle"
    /\ attempt = 0
    /\ fetchResult = "none"
    /\ requests = 0
    /\ delays = << >>
    /\ outcomes = << >>

\* decodedEvent while no event has been decoded.
NoEvent == [name |-> "none"]

\* No log line is being followed on its own.
LineIdle ==
    /\ logLine = [hasMarker |-> FALSE, base64Data |-> << >>]
    /\ linePc = "idle"
    /\ decodedEvent = NoEvent
    /\ processCreateEventCalls = 0

\* lastCall before any write call.
NoCall ==
    [op |-> "none",
     result |-> [ok |-> TRUE, inserted |-> 0, duplicates |-> 0, errors |-> 0]]

\* backfillRun before any run.
NoRun == [bondingAddresses |-> << >>, existingAddresses |-> {}, attempted |-> << >>]

\* No backfill run is in its loop.
BackfillIdle ==
    /\ backfillPc = "idle"
    /\ newAddresses = << >>
    /\ addressIndex = 0
    /\ tokenBatch = << >>
    /\ unenriched = {}
    /\ backfillRun = NoRun

\* The primary store is not followed on its own.
StoreIdle ==
    /\ engine = "sqlite"
    /\ tokens = {}
    /\ now = 0
    /\ lastCall = NoCall
    /\ BackfillIdle

\* chainCall while the fetcher has made no call.
NoChainCall ==
    [fn |-> "none", pc |-> "idle", requests |-> 0, responses |-> << >>,
     waits |-> << >>, result |-> "none"]

\* syncStatus before checkSyncStatus has run.
NoReport == [mongoTokens |-> 0, sqliteTokens |-> 0, inSync |-> FALSE, difference |-> -1]

\* metadata while no document is followed.
NoMetadata == [field \in {} |-> ""]

\* No call of startListening or stopListening is followed on its own.
LifecycleIdle ==
    /\ onLogsListeners = << >>
    /\ intervals = << >>
    /\ lifecycleCalls = << >>

\* No backfill is followed over a whole run.
RunIdle ==
    /\ bondingAddressesFile = << >>
    /\ cacheFile = << >>
    /\ missingOnChain = {}

\* The fetcher, the sync utility and the image extraction are not followed.
ToolIdle ==
    /\ LifecycleIdle
    /\ RunIdle
    /\ fetcherRetries = 0
    /\ chainCall = NoChainCall
    /\ collection = {}
    /\ syncStatus = NoReport
    /\ metadata = NoMetadata
    /\ imageUrl = "none"

LibraryIdle == FetchIdle /\ LineIdle /\ StoreIdle /\ ToolIdle

Init == InitListener /\ LibraryIdle

(***************************************************************************)
(* startCreateEventListener / startListening                               *)
(***************************************************************************)

\* startListening: initializeSQLite throws when initializeSQLDB returns
\* false, onLogs may throw; either way the catch block only logs.  The
\* timer is started between the two.  The Postgres revision only opens the
\* subscription.  startCreateEventListener then registers the signal
\* handlers and returns: the process keeps running whatever happened.
StartListening(sqliteOk, onLogsOk) ==
    /\ UNCHANGED libraryVars
    /\ procState = "init"
    /\ procState' = "running"
    /\ IF HasMongoQueue(revision)
         THEN /\ sqliteInitialized' = sqliteOk
              /\ mongoUpdateInterval' = sqliteOk
              /\ logSubscriptionId' = IF sqliteOk /\ onLogsOk THEN 0 ELSE Null
         ELSE /\ sqliteInitialized' = FALSE
              /\ mongoUpdateInterval' = FALSE
              /\ logSubscriptionId' = IF onLogsOk THEN 0 ELSE Null
    /\ UNCHANGED << revision, exitCode, mongoQueue, newTokens, sqlite, mongo,
                    pipelines, flushes, stopPc, nextEvent, eventLog, metaNull,
                    primaryWrites, enqueued, mongoAttempted >>

(***************************************************************************)
(* The subscription callback, parseEventFromLog and processCreateEvent     *)
(***************************************************************************)

\* Variant: the decode exception is not caught.
ParseEventFromLogRethrowing(kind) ==
    CASE kind = "noMarker"   -> "ignored"
      [] kind = "otherData"  -> "ignored"
      [] kind = "otherEvent" -> "ignored"
      [] kind = "malformed"  -> "throw"
      [] kind = "create"     -> "process"

\* The callback skips lines without "Program data:"; parseEventFromLog
\* returns silently on a short payload, a foreign discriminator or a
\* decoded event of another name, catches and logs a decode exception, and
\* calls processCreateEvent (without awaiting it) on a CreateEvent.
ParseEventFromLog(kind) ==
    CASE kind = "noMarker"   -> "ignored"
      [] kind = "otherData"  -> "ignored"
      [] kind = "otherEvent" -> "ignored"
      [] kind = "malformed"  -> "decodeFailed"
      [] kind = "create"     -> "process"

\* processCreateEvent only reaches the network for a syntactically valid
\* uri: an empty one is not looked up (or, in the first revision, answered
\* with null at once) and an invalid one is answered with null at once.
NeedsFetch(uri) == uri = "valid"

\* value || ''
OrEmpty(value) == IF value = "undefined" THEN "" ELSE value

\* The tokenDocument processCreateEvent assembles; only the fields that
\* depend on the metadata vary in the model.
TokenDocument(id, uriMeta) ==
    [tokenAddress |-> id,
     description  |-> IF uriMeta.isNull THEN "" ELSE OrEmpty(uriMeta.description),
     image        |-> IF uriMeta.isNull THEN "" ELSE OrEmpty(uriMeta.image)]

\* The first SQLite+MongoDB revision returns from processCreateEvent when
\* the metadata lookup gave null; the other two go on with empty fields.
DropsWithoutMetadata(rev, uriMeta) == rev = "sqliteMongoV1" /\ uriMeta.isNull

\* insertTokenToSQL / insertTokenToDB as seen by the caller: the SQLite
\* insert throws when the database was never opened, reports false when
\* the statement fails and true otherwise.
InsertTokenToSQL(dbReady, outcome) ==
    IF ~dbReady THEN "throw"
    ELSE IF outcome = "ok" THEN "true" ELSE "false"

\* INSERT OR REPLACE (ON CONFLICT DO UPDATE) keyed by tokenAddress.
Upsert(rows, doc) ==
    {r \in rows : r.tokenAddress # doc.tokenAddress} \cup {doc}

\* Variant: the document is queued whatever the primary write reported.
QueueRegardlessOfPrimaryWrite(q, doc, sqliteSuccess) == Append(q, doc)

\* if (sqliteSuccess) this.mongoQueue.push(tokenDocument); nothing is
\* pushed in the else branch or in the catch block.
QueueAfterPrimaryWrite(q, doc, sqliteSuccess) ==
    IF sqliteSuccess = "true" THEN Append(q, doc) ELSE q

\* History: a push made while a flush is running is noted on that flush.
NoteEnqueued(fs, pushed) ==
    [f \in FlushKinds |->
        IF fs[f].pc = "run"
          THEN [fs[f] EXCEPT !.during = @ \cup pushed]
          ELSE fs[f]]

\* processCreateEvent from the point where the metadata is known.
ProcessCreateEventTail(id, uriMeta, storeOutcome) ==
    LET doc    == TokenDocument(id, uriMeta)
        dbOk   == IF HasMongoQueue(revision) THEN sqliteInitialized ELSE TRUE
        result == InsertTokenToSQL(dbOk, storeOutcome)
        queue  == IF HasMongoQueue(revision)
                    THEN QueueAfterPrimaryWrite(mongoQueue, doc, result)
                    ELSE mongoQueue
        pushed == IF Len(queue) > Len(mongoQueue) THEN {id} ELSE {}
    IN  /\ metaNull' = IF uriMeta.isNull THEN metaNull \cup {id} ELSE metaNull
        /\ IF DropsWithoutMetadata(revision, uriMeta)
             THEN /\ eventLog' = [eventLog EXCEPT ![id] = "dropped"]
                  /\ UNCHANGED << sqlite, mongoQueue, newTokens, primaryWrites,
                                  enqueued, flushes >>
             ELSE /\ primaryWrites' = Append(primaryWrites, doc)
                  /\ sqlite' = IF result = "true" THEN Upsert(sqlite, doc) ELSE sqlite
                  /\ mongoQueue' = queue
                  /\ newTokens' = IF result = "true" THEN Append(newTokens, id)
                                  ELSE newTokens
                  /\ enqueued' = enqueued \cup pushed
                  /\ flushes' = NoteEnqueued(flushes, pushed)
                  /\ eventLog' = [eventLog EXCEPT ![id] =
                        CASE result = "true"  -> "primaryTrue"
                          [] result = "false" -> "primaryFalse"
                          [] OTHER            -> "primaryThrow"]

\* Variant: the callback waits for the pipelines it started.
CallbackAwaitsPipelines(pending) == pending # {}

\* The callback calls parseEventFromLog, and that processCreateEvent,
\* without await: pipelines still waiting never hold the callback up.
CallbackBusy(pending) == FALSE

\* One log line delivered to the onLogs callback.  The callback is gone as
\* soon as removeOnLogsListener has been called.  An exception leaving
\* parseEventFromLog would leave the callback too and end the process.
Dispatch(kind, uri, storeOutcome) ==
    /\ UNCHANGED libraryVars
    /\ procState = "running"
    /\ logSubscriptionId # Null
    /\ stopPc = "idle"
    /\ ~CallbackBusy(pipelines)
    /\ nextEvent <= MaxEvents
    /\ nextEvent' = nextEvent + 1
    /\ LET id == nextEvent
           r  == ParseEventFromLog(kind)
       IN  CASE r = "throw" ->
                  /\ procState' = "crashed"
                  /\ exitCode' = 1
                  /\ eventLog' = [eventLog EXCEPT ![id] = "thrown"]
                  /\ UNCHANGED << pipelines, sqlite, mongoQueue, newTokens,
                                  metaNull, primaryWrites, enqueued, flushes >>
             [] r = "process" /\ NeedsFetch(uri) ->
                  /\ pipelines' = pipelines \cup {id}
                  /\ eventLog' = [eventLog EXCEPT ![id] = "fetching"]
                  /\ UNCHANGED << procState, exitCode, sqlite, mongoQueue,
                                  newTokens, metaNull, primaryWrites, enqueued,
                                  flushes >>
             [] r = "process" /\ ~NeedsFetch(uri) ->
                  /\ ProcessCreateEventTail(id, NullMeta, storeOutcome)
                  /\ UNCHANGED << procState, exitCode, pipelines >>
             [] OTHER ->
                  /\ eventLog' = [eventLog EXCEPT ![id] = r]
                  /\ UNCHANGED << procState, exitCode, pipelines, sqlite,
                                  mongoQueue, newTokens, metaNull, primaryWrites,
                                  enqueued, flushes >>
    /\ UNCHANGED << revision, sqliteInitialized, mongoUpdateInterval,
                    logSubscriptionId, mongo, stopPc, mongoAttempted >>

\* getTokenMetadataFromUri settles for a pipeline that was waiting on it;
\* processCreateEvent runs to its end.  Nothing cancels a pipeline: it
\* goes on after the subscription has been removed.
FetchDone(id, uriMeta, storeOutcome) ==
    /\ UNCHANGED libraryVars
    /\ procState = "running"
    /\ id \in pipelines
    /\ pipelines' = pipelines \ {id}
    /\ ProcessCreateEventTail(id, uriMeta, storeOutcome)
    /\ UNCHANGED << revision, procState, exitCode, sqliteInitialized,
                    mongoUpdateInterval, logSubscriptionId, mongo, stopPc,
                    nextEvent, mongoAttempted >>

(***************************************************************************)
(* flushMongoQueue, the timer, forceMongSync                               *)
(***************************************************************************)

\* insertToken of db/mongoDB.ts as seen by the caller: the whole body is
\* inside try/catch; a duplicate-key error (11000) gives true, any other
\* error gives false.  No outcome makes it throw.
InsertToken(outcome) ==
    CASE outcome = "inserted"  -> "true"
      [] outcome = "duplicate" -> "true"
      [] outcome = "error"     -> "false"

\* const tokensToSync = [...this.mongoQueue]
TokensToSync(q) == q

\* Variant: the queue keeps what was copied.
QueueKeptAfterSnapshot(q) == q

\* this.mongoQueue = []  (right after the copy)
QueueAfterSnapshot(q) == << >>

\* Variant: the queue is reset after the write instead of with the copy.
QueueResetAfterWrite(q, doc, result) ==
    IF result = "throw" THEN << doc >> ELSE << >>

\* The loop body of flushMongoQueue after insertToken settled: only the
\* catch block pushes the document back; the returned boolean is not
\* looked at.
QueueAfterWrite(q, doc, result) ==
    IF result = "throw" THEN Append(q, doc) ELSE q

\* flushMongoQueue up to its first await, for a non-empty queue.
BeginFlush(f) ==
    /\ mongoQueue # << >>
    /\ flushes' = [flushes EXCEPT ![f] =
            [pc |-> "run", tokensToSync |-> TokensToSync(mongoQueue), i |-> 1,
             successCount |-> 0, errorCount |-> 0,
             ok |-> {}, failed |-> {}, during |-> {}]]
    /\ mongoQueue' = QueueAfterSnapshot(mongoQueue)
    /\ mongoAttempted' = mongoAttempted \cup {mongoQueue[1].tokenAddress}

\* The setInterval callback.  With an empty queue flushMongoQueue returns
\* at once.  (At most one timer-triggered flush is in progress at a time;
\* overlapping flushes are covered by the other triggers.)
TimerFire ==
    /\ UNCHANGED libraryVars
    /\ procState = "running"
    /\ mongoUpdateInterval
    /\ flushes["timer"].pc # "run"
    /\ BeginFlush("timer")
    /\ UNCHANGED << revision, procState, exitCode, sqliteInitialized,
                    mongoUpdateInterval, logSubscriptionId, newTokens, sqlite,
                    mongo, pipelines, stopPc, nextEvent, eventLog, metaNull,
                    primaryWrites, enqueued >>

\* forceMongSync, the public manual trigger.
ForceMongSync ==
    /\ UNCHANGED libraryVars
    /\ procState = "running"
    /\ HasMongoQueue(revision)
    /\ flushes["forced"].pc # "run"
    /\ BeginFlush("forced")
    /\ UNCHANGED << revision, procState, exitCode, sqliteInitialized,
                    mongoUpdateInterval, logSubscriptionId, newTokens, sqlite,
                    mongo, pipelines, stopPc, nextEvent, eventLog, metaNull,
                    primaryWrites, enqueued >>

\* shutdown after stopListening returned: process.exit(0).
ExitAfterStop ==
    /\ stopPc' = "done"
    /\ procState' = "exited"
    /\ exitCode' = 0

\* The insertToken a flush was waiting on settles; the loop goes on to the
\* next document or the flush ends.  The end of the final flush lets
\* stopListening return and the signal handler exit the process.
FlushWrite(f, outcome) ==
    /\ UNCHANGED libraryVars
    /\ procState = "running"
    /\ flushes[f].pc = "run"
    /\ LET fl     == flushes[f]
           doc    == fl.tokensToSync[fl.i]
           result == InsertToken(outcome)
           last   == fl.i = Len(fl.tokensToSync)
           after  == [fl EXCEPT
                        !.successCount = IF result = "throw" THEN @ ELSE @ + 1,
                        !.errorCount   = IF result = "throw" THEN @ + 1 ELSE @,
                        !.ok     = IF outcome = "error" THEN @
                                   ELSE @ \cup {doc.tokenAddress},
                        !.failed = IF outcome = "error"
                                   THEN @ \cup {doc.tokenAddress} ELSE @]
       IN  /\ mongoAttempted' =
                 IF last THEN mongoAttempted
                 ELSE mongoAttempted \cup {fl.tokensToSync[fl.i + 1].tokenAddress}
           /\ mongo' = IF outcome = "error" THEN mongo
                       ELSE mongo \cup {doc.tokenAddress}
           /\ mongoQueue' = QueueAfterWrite(mongoQueue, doc, result)
           /\ flushes' = [flushes EXCEPT ![f] =
                 IF last
                   THEN [after EXCEPT !.pc = "done", !.tokensToSync = << >>,
                                      !.i = 0, !.successCount = 0,
                                      !.errorCount = 0]
                   ELSE [after EXCEPT !.i = @ + 1]]
           /\ IF last /\ f = "final"
                THEN ExitAfterStop
                ELSE UNCHANGED << stopPc, procState, exitCode >>
    /\ UNCHANGED << revision, sqliteInitialized, mongoUpdateInterval,
                    logSubscriptionId, newTokens, sqlite, pipelines, nextEvent,
                    eventLog, metaNull, primaryWrites, enqueued >>

(***************************************************************************)
(* stopListening and the SIGINT/SIGTERM handler                            *)
(***************************************************************************)

\* Variant: the timer is left armed.
KeepInterval(armed) == armed

\* clearInterval(this.mongoUpdateInterval); this.mongoUpdateInterval = null
ClearInterval(armed) == FALSE

\* stopListening after the subscription block: cancel the timer, then the
\* final flush; with an empty queue (or in the Postgres revision, which
\* has neither) stopListening returns without suspending and the handler
\* exits the process.
Teardown ==
    /\ mongoUpdateInterval' = ClearInterval(mongoUpdateInterval)
    /\ IF HasMongoQueue(revision) /\ mongoQueue # << >>
         THEN /\ BeginFlush("final")
              /\ stopPc' = "flush"
              /\ UNCHANGED << procState, exitCode >>
         ELSE /\ ExitAfterStop
              /\ UNCHANGED << mongoQueue, flushes, mongoAttempted >>

\* SIGINT or SIGTERM: shutdown calls stopListening, which waits for
\* removeOnLogsListener when there is a subscription.
Shutdown ==
    /\ UNCHANGED libraryVars
    /\ procState = "running"
    /\ stopPc = "idle"
    /\ IF logSubscriptionId # Null
         THEN /\ stopPc' = "unsub"
              /\ UNCHANGED << procState, exitCode, mongoUpdateInterval,
                              mongoQueue, flushes, mongoAttempted >>
         ELSE Teardown
    /\ UNCHANGED << revision, sqliteInitialized, logSubscriptionId, newTokens,
                    sqlite, mongo, pipelines, nextEvent, eventLog, metaNull,
                    primaryWrites, enqueued >>

\* removeOnLogsListener resolved: the rest of stopListening.
StopAfterUnsubscribe ==
    /\ UNCHANGED libraryVars
    /\ procState = "running"
    /\ stopPc = "unsub"
    /\ logSubscriptionId' = Null
    /\ Teardown
    /\ UNCHANGED << revision, sqliteInitialized, newTokens, sqlite, mongo,
                    pipelines, nextEvent, eventLog, metaNull, primaryWrites,
                    enqueued >>

\* Nothing keeps the event loop alive (no subscription, no timer, nothing
\* in flight; signal handlers do not): the process ends with status 0.
NaturalExit ==
    /\ UNCHANGED libraryVars
    /\ procState = "running"
    /\ stopPc = "idle"
    /\ logSubscriptionId = Null
    /\ ~mongoUpdateInterval
    /\ pipelines = {}
    /\ \A f \in FlushKinds : flushes[f].pc # "run"
    /\ procState' = "exited"
    /\ exitCode' = 0
    /\ UNCHANGED << revision, sqliteInitialized, mongoUpdateInterval,
                    logSubscriptionId, mongoQueue, newTokens, sqlite, mongo,
                    pipelines, flushes, stopPc, nextEvent, eventLog, metaNull,
                    primaryWrites, enqueued, mongoAttempted >>

(***************************************************************************)
(* Vocabulary of the properties                                            *)
(***************************************************************************)

\* tokenAddresses of the documents in a queue or snapshot
QueueIds(q) == {q[k].tokenAddress : k \in DOMAIN q}

\* how many times a tokenAddress occurs in a queue
Count(q, id) == Cardinality({k \in DOMAIN q : q[k].tokenAddress = id})

\* the documents a running flush has not yet handed to insertOne, the one
\* it is waiting on included
Unsent(fl) ==
    IF fl.pc = "run"
      THEN {fl.tokensToSync[k].tokenAddress : k \in fl.i .. Len(fl.tokensToSync)}
      ELSE {}

\* a flush ends in this step
FlushEnds(f) == flushes[f].pc = "run" /\ flushes'[f].pc = "done"

Next ==
    \/ \E s \in BOOLEAN, o \in BOOLEAN : StartListening(s, o)
    \/ \E k \in LineKinds, u \in UriKinds, w \in StoreOutcomes : Dispatch(k, u, w)
    \/ \E id \in EventIds, m \in FetchResults, w \in StoreOutcomes : FetchDone(id, m, w)
    \/ TimerFire
    \/ ForceMongSync
    \/ \E f \in FlushKinds, o \in MongoOutcomes : FlushWrite(f, o)
    \/ Shutdown
    \/ StopAfterUnsubscribe
    \/ NaturalExit

Spec == Init /\ [][Next]_vars

(***************************************************************************)
(* Properties                                                              *)
(***************************************************************************)

\* C1: when a flush ends, every record whose secondary-store write failed
\* during that flush is in the queue exactly once and no record that was
\* written is in it.
C1_FailedWritesRequeued ==
    [][\A f \in FlushKinds :
          FlushEnds(f) =>
             /\ \A id \in flushes'[f].failed : Count(mongoQueue', id) = 1
             /\ \A id \in flushes'[f].ok : Count(mongoQueue', id) = 0]_vars

\* C2 as stated: a record pushed to the queue while a flush is suspended on
\* a write is not in that flush's snapshot and is still in the queue when
\* that flush ends.
C2_StillQueuedAtFlushEnd ==
    [][\A f \in FlushKinds :
          FlushEnds(f) =>
             \A id \in flushes'[f].during :
                /\ id \notin flushes'[f].ok \cup flushes'[f].failed
                /\ id \in QueueIds(mongoQueue')]_vars

\* C2 as amended: a record pushed to the queue while a flush is suspended
\* on a write is never in that flush's snapshot, and when that flush ends
\* the record is still in the queue unless another flush that began in the
\* meantime took it into its own snapshot.
C2_NotConsumedByRunningFlush ==
    [][\A f \in FlushKinds :
          FlushEnds(f) =>
             \A id \in flushes'[f].during :
                /\ id \notin flushes'[f].ok \cup flushes'[f].failed
                /\ \/ id \in QueueIds(mongoQueue')
                   \/ \E g \in FlushKinds \ {f} : id \in Unsent(flushes'[g])
                   \/ id \in mongoAttempted']_vars

\* A flush has ended and a record pushed while it ran is waiting in the queue.
C2_Witness ==
    \E f \in FlushKinds :
       /\ flushes[f].pc = "done"
       /\ \E id \in flushes[f].during :
             /\ id \in QueueIds(mongoQueue)
             /\ id \notin flushes[f].ok \cup flushes[f].failed

\* C3: a record is pushed to the secondary-store queue if and only if its
\* primary write reported success; the primary write of an event is made
\* once, and a record whose primary write reported success is in the
\* primary store.
C3_QueuedIffPrimarySucceeded ==
    HasMongoQueue(revision) =>
       /\ \A id \in EventIds : id \in enqueued <=> eventLog[id] = "primaryTrue"
       /\ QueueIds(mongoQueue) \subseteq enqueued
       /\ \A id \in EventIds :
             Cardinality({k \in DOMAIN primaryWrites :
                             primaryWrites[k].tokenAddress = id}) <= 1
       /\ \A id \in EventIds :
             eventLog[id] = "primaryTrue" =>
                \E r \in sqlite : r.tokenAddress = id

\* One event was written and queued, another failed its primary write and
\* was not queued.
C3_Witness ==
    /\ HasMongoQueue(revision)
    /\ \E a, b \in EventIds :
          /\ eventLog[a] = "primaryTrue" /\ a \in enqueued
          /\ eventLog[b] = "primaryFalse" /\ b \notin enqueued
          /\ Len(primaryWrites) = 2

\* C4: when graceful shutdown has completed, insertOne has been called for
\* every record that was ever pushed to the secondary-store queue.
C4_ShutdownDrainsEverything ==
    (procState = "exited" /\ stopPc = "done") => enqueued \subseteq mongoAttempted

\* C5: while stopListening is still removing the subscription the timer is
\* armed and the final flush has not begun; once the final flush has begun
\* or stopListening has returned, the subscription is gone and the timer
\* cancelled; with the timer cancelled no timer-triggered flush starts.
C5_TeardownOrder ==
    [][HasMongoQueue(revision) =>
          /\ stopPc' = "unsub" =>
                (mongoUpdateInterval' /\ flushes'["final"].pc = "idle")
          /\ (stopPc' \in {"flush", "done"} \/ flushes'["final"].pc # "idle") =>
                (logSubscriptionId' = Null /\ ~mongoUpdateInterval')
          /\ ~mongoUpdateInterval =>
                ~(flushes["timer"].pc # "run" /\ flushes'["timer"].pc = "run")]_vars

\* The final flush is in progress after a timer-triggered flush had run.
C5_Witness ==
    /\ stopPc = "flush"
    /\ flushes["final"].pc = "run"
    /\ flushes["timer"].pc = "done"
    /\ logSubscriptionId = Null
    /\ ~mongoUpdateInterval

\* C6: once the final flush of stopListening has begun, no event pipeline
\* writes to the primary store or pushes to the secondary-store queue.
C6_NoProcessingWhileDraining ==
    [][stopPc = "flush" =>
          /\ primaryWrites' = primaryWrites
          /\ sqlite' = sqlite
          /\ enqueued' = enqueued]_vars

\* C7: while the process is alive, every record the listener wrote to the
\* primary store is in the secondary store or still on its way there (in
\* the queue or in the unsent part of a running flush).
C7_NeverPermanentlyMissed ==
    (HasMongoQueue(revision) /\ procState = "running") =>
       \A id \in EventIds :
          eventLog[id] = "primaryTrue" =>
             \/ id \in mongo
             \/ id \in QueueIds(mongoQueue)
             \/ \E f \in FlushKinds : id \in Unsent(flushes[f])

\* C8: no step of an event pipeline (a dispatched log line, a settled
\* metadata fetch), whatever fails in it, removes the subscription or ends
\* the process.
C8_PipelineFailureIsContained ==
    [][(nextEvent' # nextEvent \/ pipelines' # pipelines) =>
          /\ logSubscriptionId' = logSubscriptionId
          /\ procState' = "running"
          /\ exitCode' = Null]_vars

\* After a payload that failed to decode, a later event went through while
\* the listener was still subscribed.
C8_Witness ==
    /\ procState = "running"
    /\ logSubscriptionId # Null
    /\ \E a, b \in EventIds :
          /\ a < b
          /\ eventLog[a] = "decodeFailed"
          /\ eventLog[b] = "primaryTrue"

\* C9: after a startup in which the subscription was not opened, the
\* process has exited with a non-zero status.
C9_StartupFailureIsFatal ==
    (procState # "init" /\ stopPc = "idle" /\ logSubscriptionId = Null) =>
       (procState = "exited" /\ exitCode > 0)

\* C10: every create event whose metadata lookup returned null was handed
\* to the primary store with description and image equal to ''.
C10_PersistedWithoutMetadata ==
    \A id \in metaNull :
       \E k \in DOMAIN primaryWrites :
          /\ primaryWrites[k].tokenAddress = id
          /\ primaryWrites[k].description = ""
          /\ primaryWrites[k].image = ""

(***************************************************************************)
(* getTokenMetadataFromUri on its own                                      *)
(*                                                                         *)
(* A uri is a string over a three-letter alphabet that is enough to tell   *)
(* the branches of the function apart: the space (removed by trim and by   *)
(* the URL parser at both ends), a letter (a scheme character) and the     *)
(* colon that ends a scheme.  No scheme spelt with this alphabet is one of *)
(* the special schemes (http, https, ...), so a string with a scheme       *)
(* parses whatever follows the colon.                                      *)
(***************************************************************************)

\* Longest uri that is tried.
MaxUriLen == 3

UriChars == {" ", "a", ":"}

Uris == UNION {[1 .. n -> UriChars] : n \in 0 .. MaxUriLen}

\* maxRetries: number = 5
DefaultMaxRetries == 5

\* How one fetch(uri) can end: the AbortSignal timeout or a network error,
\* a response that is not ok, a content type other than application/json,
\* a body that response.json() rejects, or a JSON document.
RequestOutcomes == {"timeout", "httpError", "notJson", "badJson", "ok"}

\* A variant of the one below in which a response that is not ok ends the
\* loop like an unexpected content type.
ThrowsUnlessHttpError(outcome) == outcome \in {"timeout", "badJson"}

\* The outcomes that land in the catch block of the loop.
Throws(outcome) == outcome \in {"timeout", "httpError", "badJson"}

RECURSIVE TrimStart(_)
TrimStart(str) ==
    IF str # << >> /\ Head(str) = " " THEN TrimStart(Tail(str)) ELSE str

RECURSIVE TrimEnd(_)
TrimEnd(str) ==
    IF str # << >> /\ str[Len(str)] = " "
      THEN TrimEnd(SubSeq(str, 1, Len(str) - 1))
      ELSE str

\* String.prototype.trim
Trim(str) == TrimEnd(TrimStart(str))

\* The scheme state of the URL parser: letters extend the scheme, a colon
\* ends it, anything else (or the end of the input) means there is no
\* scheme, which without a base URL is a failure.
RECURSIVE SchemeState(_, _)
SchemeState(input, pointer) ==
    IF pointer > Len(input) THEN FALSE
    ELSE IF input[pointer] = "a" THEN SchemeState(input, pointer + 1)
    ELSE input[pointer] = ":"

\* A constructor that accepts every string -- the validation left out, as a
\* mutation of the one below.
AcceptsAnyString(str) == TRUE

\* new URL(uri) returns (TRUE) or throws a TypeError (FALSE).  The parser
\* first strips leading and trailing spaces; the scheme start state wants
\* a letter.
NewURL(str) ==
    LET input == Trim(str)
    IN  /\ input # << >>
        /\ Head(input) = "a"
        /\ SchemeState(input, 2)

\* if (attempt < maxRetries)  -- the condition of the wait, as a mutation
\* of the one below.
WaitsAfterEveryAttempt(a, retries) == a < retries

\* if (attempt < maxRetries - 1)
ShouldWait(a, retries) == a < retries - 1

\* Math.pow(2, attempt) * 1000
BackoffDelay(a) == (2 ^ a) * 1000

\* The head of the for loop with attempt = a: either the next fetch is
\* issued or the loop ends and the function returns null.
LoopHead(a) ==
    /\ attempt' = a
    /\ IF a < maxRetries
         THEN /\ fetchPc' = "request"
              /\ requests' = requests + 1
              /\ fetchResult' = "none"
         ELSE /\ fetchPc' = "done"
              /\ requests' = requests
              /\ fetchResult' = "null"

\* The call up to its first await: the two guards, then the first request.
GetTokenMetadataFromUri ==
    /\ fetchPc = "start"
    /\ IF Trim(fetchUri) = << >> \/ ~NewURL(fetchUri)
         THEN /\ fetchPc' = "done"
              /\ fetchResult' = "null"
              /\ UNCHANGED << attempt, requests >>
         ELSE LoopHead(0)
    /\ UNCHANGED << fetchUri, maxRetries, delays, outcomes >>
    /\ UNCHANGED << listenerVars, lineVars, storeVars, toolVars >>

\* The awaited fetch (and response.json()) settles.
FetchSettles(outcome) ==
    /\ fetchPc = "request"
    /\ outcomes' = Append(outcomes, outcome)
    /\ IF outcome = "ok"
         THEN /\ fetchPc' = "done"
              /\ fetchResult' = "metadata"
              /\ UNCHANGED << attempt, requests, delays >>
       ELSE IF ~Throws(outcome)
         THEN /\ fetchPc' = "done"
              /\ fetchResult' = "null"
              /\ UNCHANGED << attempt, requests, delays >>
       ELSE IF ShouldWait(attempt, maxRetries)
         THEN /\ delays' = Append(delays, BackoffDelay(attempt))
              /\ fetchPc' = "backoff"
              /\ UNCHANGED << attempt, requests, fetchResult >>
       ELSE /\ LoopHead(attempt + 1)
            /\ UNCHANGED delays
    /\ UNCHANGED << fetchUri, maxRetries >>
    /\ UNCHANGED << listenerVars, lineVars, storeVars, toolVars >>

\* The setTimeout of the backoff fires: attempt++ and back to the loop head.
BackoffElapsed ==
    /\ fetchPc = "backoff"
    /\ LoopHead(attempt + 1)
    /\ UNCHANGED << fetchUri, maxRetries, delays, outcomes >>
    /\ UNCHANGED << listenerVars, lineVars, storeVars, toolVars >>

InitFetch ==
    /\ InitListener
    /\ revision = "sqliteMongo"
    /\ fetchUri \in Uris
    /\ maxRetries \in 0 .. DefaultMaxRetries
    /\ fetchPc = "start"
    /\ attempt = 0
    /\ fetchResult = "none"
    /\ requests = 0
    /\ delays = << >>
    /\ outcomes = << >>
    /\ LineIdle
    /\ StoreIdle
    /\ ToolIdle

NextFetch ==
    \/ GetTokenMetadataFromUri
    \/ \E o \in RequestOutcomes : FetchSettles(o)
    \/ BackoffElapsed

SpecFetch == InitFetch /\ [][NextFetch]_vars

\* C12: with maxRetries = 5, once five requests in a row have timed out
\* the call is over: it made exactly five requests, waited 1000, 2000,
\* 4000 and 8000 ms between them and nothing after the last, and returned
\* null.
C12_FiveTimeoutsBackOffAndGiveUp ==
    (/\ maxRetries = 5
     /\ Len(outcomes) = 5
     /\ \A k \in DOMAIN outcomes : outcomes[k] = "timeout")
    => /\ fetchPc = "done"
       /\ requests = 5
       /\ delays = << 1000, 2000, 4000, 8000 >>
       /\ fetchResult = "null"

C12_Witness ==
    /\ fetchPc = "done"
    /\ maxRetries = 5
    /\ outcomes = << "timeout", "timeout", "timeout", "timeout", "timeout" >>

\* A uri without a scheme: no run of letters, preceded by spaces only, is
\* followed by a colon.  The empty and the whitespace-only uri are among
\* them.
HasNoScheme(str) ==
    ~ \E i \in DOMAIN str, j \in DOMAIN str :
         /\ i < j
         /\ str[j] = ":"
         /\ \A k \in 1 .. (i - 1) : str[k] = " "
         /\ \A k \in i .. (j - 1) : str[k] = "a"

\* C13: for an empty, whitespace-only or syntactically invalid uri the
\* call returns null in its first step and never issues a request.
C13_BadUriReturnsNullWithoutRequest ==
    (HasNoScheme(fetchUri) /\ fetchPc # "start" /\ fetchPc # "idle")
    => /\ fetchPc = "done"
       /\ fetchResult = "null"
       /\ requests = 0
       /\ outcomes = << >>

C13_Witness ==
    /\ fetchPc = "done"
    /\ fetchUri = << " ", "a", " " >>
    /\ maxRetries = 5

(***************************************************************************)
(* One log line through the onLogs callback, parseEventFromLog and         *)
(* processCreateEvent                                                      *)
(*                                                                         *)
(* A line is "Program data: " followed by base64 text, or a line without   *)
(* that marker.  Base64 text is a sequence of 6-bit digits; the padding    *)
(* characters are left out, as Buffer.from does not need them.  Strings    *)
(* of the event are sequences of characters.                               *)
(***************************************************************************)

\* Longest payload text that is tried, in base64 digits.
MaxPayloadChars == 13

\* const CREATE_EVENT_DISCRIMINATOR = Buffer.from([27, 114, ...])
CREATE_EVENT_DISCRIMINATOR == << 27, 114, 169, 77, 222, 235, 99, 118 >>

\* The bytes that follow the discriminator in the longest payload.
SampleBody == << 4, 0 >>

\* Bytes to base64 digits, three bytes to four digits; one or two bytes
\* left over give two or three digits.
RECURSIVE Base64Encode(_)
Base64Encode(bytes) ==
    IF Len(bytes) = 0 THEN << >>
    ELSE IF Len(bytes) = 1
      THEN << bytes[1] \div 4, (bytes[1] % 4) * 16 >>
    ELSE IF Len(bytes) = 2
      THEN << bytes[1] \div 4,
              (bytes[1] % 4) * 16 + bytes[2] \div 16,
              (bytes[2] % 16) * 4 >>
    ELSE << bytes[1] \div 4,
            (bytes[1] % 4) * 16 + bytes[2] \div 16,
            (bytes[2] % 16) * 4 + bytes[3] \div 64,
            bytes[3] % 64 >> \o Base64Encode(SubSeq(bytes, 4, Len(bytes)))

\* Buffer.from(base64Data, 'base64'): every full group of eight bits is a
\* byte, bits left over are dropped.
Base64Decode(text) ==
    [k \in 1 .. ((Len(text) * 6) \div 8) |->
        LET bit == 8 * (k - 1)
            i   == (bit \div 6) + 1
            off == bit % 6
        IN  CASE off = 0 -> text[i] * 4 + text[i + 1] \div 16
              [] off = 2 -> (text[i] % 16) * 16 + text[i + 1] \div 4
              [] off = 4 -> (text[i] % 4) * 64 + text[i + 1]]

\* The text with the digit at one position replaced by another digit.
Corrupt(text, pos) ==
    IF pos \in DOMAIN text
      THEN [text EXCEPT ![pos] = (@ + 1) % 64]
      ELSE text

\* The payload texts that are tried: the beginnings of a create payload,
\* intact or with one digit changed.
PayloadTexts ==
    LET full == Base64Encode(CREATE_EVENT_DISCRIMINATOR \o SampleBody)
    IN  {Corrupt(SubSeq(full, 1, n), pos) :
            n \in 0 .. MaxPayloadChars, pos \in 0 .. MaxPayloadChars}

LogLines == [hasMarker : BOOLEAN, base64Data : PayloadTexts]

\* log.includes('Program data:')
IncludesMarker(line) == line.hasMarker

\* logLine.match(/Program data: (.+)/): the marker, a space and at least
\* one character.
DataMatch(line) == line.hasMarker /\ Len(line.base64Data) >= 1

\* Variant: only the length of the payload is looked at.
IsLongEnough(eventData) == Len(eventData) >= 8

\* eventData.length >= 8 && eventData.subarray(0, 8).equals(DISCRIMINATOR)
IsCreateEventData(eventData) ==
    /\ Len(eventData) >= 8
    /\ SubSeq(eventData, 1, 8) = CREATE_EVENT_DISCRIMINATOR

\* What coder.events.decode(base64Data) can do with a payload that begins
\* with the discriminator: throw (a truncated body), return null, return
\* an event of another name, or return a CreateEvent.
DecodeOutcomes == {"throws", "null", "otherEvent", "CreateEvent"}

StringValue(str) == [type |-> "string", value |-> str]

PublicKeyValue(base58) == [type |-> "publicKey", base58 |-> base58]

\* The data of a decoded CreateEvent: three strings and three PublicKeys.
CreateEvents ==
    [name          : {StringValue(<< >>), StringValue(<< "n" >>)},
     symbol        : {StringValue(<< "s" >>)},
     uri           : {StringValue(<< >>), StringValue(<< " " >>),
                      StringValue(<< "a" >>), StringValue(<< "a", ":" >>)},
     mint          : {PublicKeyValue(<< "M" >>)},
     bonding_curve : {PublicKeyValue(<< "B" >>)},
     creator       : {PublicKeyValue(<< "K" >>)}]

\* safeStringify: '' for null and undefined, a string as it is, an object
\* with a toString method (a PublicKey) by that method.
SafeStringify(v) ==
    CASE v.type \in {"null", "undefined"} -> << >>
      [] v.type = "string"                -> v.value
      [] v.type = "publicKey"             -> v.base58

\* const safeTokenData = { ... }
SafeTokenData(event) ==
    [name          |-> SafeStringify(event.name),
     symbol        |-> SafeStringify(event.symbol),
     uri           |-> SafeStringify(event.uri),
     mint          |-> SafeStringify(event.mint),
     bonding_curve |-> SafeStringify(event.bonding_curve),
     creator       |-> SafeStringify(event.creator)]

\* Variant: the two addresses change places.
TokenDocumentWithKeysSwapped(safeTokenData, uriMeta) ==
    [bondingCurveAddress |-> safeTokenData.mint,
     complete            |-> FALSE,
     creator             |-> safeTokenData.creator,
     tokenAddress        |-> safeTokenData.bonding_curve,
     name                |-> safeTokenData.name,
     symbol              |-> safeTokenData.symbol,
     uri                 |-> safeTokenData.uri,
     description         |-> IF uriMeta.isNull THEN "" ELSE OrEmpty(uriMeta.description),
     image               |-> IF uriMeta.isNull THEN "" ELSE OrEmpty(uriMeta.image)]

\* const tokenDocument = { ... }
TokenDocumentOf(safeTokenData, uriMeta) ==
    [bondingCurveAddress |-> safeTokenData.bonding_curve,
     complete            |-> FALSE,
     creator             |-> safeTokenData.creator,
     tokenAddress        |-> safeTokenData.mint,
     name                |-> safeTokenData.name,
     symbol              |-> safeTokenData.symbol,
     uri                 |-> safeTokenData.uri,
     description         |-> IF uriMeta.isNull THEN "" ELSE OrEmpty(uriMeta.description),
     image               |-> IF uriMeta.isNull THEN "" ELSE OrEmpty(uriMeta.image)]

\* processCreateEvent from the tokenDocument on: the write to the primary
\* store and, when it reports success, the two pushes.
WriteTokenDocument(event, uriMeta, storeOutcome) ==
    LET doc    == TokenDocumentOf(SafeTokenData(event), uriMeta)
        result == InsertTokenToSQL(sqliteInitialized, storeOutcome)
    IN  /\ primaryWrites' = Append(primaryWrites, doc)
        /\ sqlite' = IF result = "true" THEN Upsert(sqlite, doc) ELSE sqlite
        /\ mongoQueue' = QueueAfterPrimaryWrite(mongoQueue, doc, result)
        /\ newTokens' = IF result = "true"
                          THEN Append(newTokens, doc.tokenAddress)
                          ELSE newTokens

\* Everything a delivered line leaves alone in the listener.
LineLeavesAlone ==
    UNCHANGED << revision, procState, exitCode, sqliteInitialized,
                 mongoUpdateInterval, logSubscriptionId, mongoQueue, newTokens,
                 sqlite, mongo, pipelines, flushes, stopPc, nextEvent, eventLog,
                 metaNull, primaryWrites, enqueued, mongoAttempted >>

\* The callback for one line, with parseEventFromLog and the beginning of
\* processCreateEvent: up to the await of the metadata, or, when the uri
\* is blank, to the end.
OnLogLine(decodeOutcome, event, storeOutcome) ==
    /\ linePc = "delivered"
    /\ UNCHANGED << storeVars, toolVars >>
    /\ UNCHANGED logLine
    /\ IF /\ IncludesMarker(logLine)
          /\ DataMatch(logLine)
          /\ IsCreateEventData(Base64Decode(logLine.base64Data))
          /\ decodeOutcome = "CreateEvent"
         THEN /\ processCreateEventCalls' = processCreateEventCalls + 1
              /\ decodedEvent' = event
              /\ IF Trim(SafeTokenData(event).uri) # << >>
                   THEN /\ linePc' = "fetching"
                        /\ fetchUri' = SafeTokenData(event).uri
                        /\ maxRetries' = DefaultMaxRetries
                        /\ fetchPc' = "start"
                        /\ UNCHANGED << attempt, fetchResult, requests, delays,
                                        outcomes >>
                        /\ LineLeavesAlone
                   ELSE /\ linePc' = "done"
                        /\ WriteTokenDocument(event, NullMeta, storeOutcome)
                        /\ UNCHANGED fetchVars
                        /\ UNCHANGED << revision, procState, exitCode,
                                        sqliteInitialized, mongoUpdateInterval,
                                        logSubscriptionId, mongo, pipelines,
                                        flushes, stopPc, nextEvent, eventLog,
                                        metaNull, enqueued, mongoAttempted >>
         ELSE /\ linePc' = "done"
              /\ UNCHANGED << decodedEvent, processCreateEventCalls >>
              /\ UNCHANGED fetchVars
              /\ LineLeavesAlone

\* processCreateEvent resumes when getTokenMetadataFromUri has returned.
ProcessCreateEventResumes(uriMeta, storeOutcome) ==
    /\ linePc = "fetching"
    /\ UNCHANGED << storeVars, toolVars >>
    /\ fetchPc = "done"
    /\ uriMeta.isNull <=> fetchResult = "null"
    /\ linePc' = "done"
    /\ fetchPc' = "idle"
    /\ WriteTokenDocument(decodedEvent, uriMeta, storeOutcome)
    /\ UNCHANGED << logLine, decodedEvent, processCreateEventCalls >>
    /\ UNCHANGED << fetchUri, maxRetries, attempt, fetchResult, requests,
                    delays, outcomes >>
    /\ UNCHANGED << revision, procState, exitCode, sqliteInitialized,
                    mongoUpdateInterval, logSubscriptionId, mongo, pipelines,
                    flushes, stopPc, nextEvent, eventLog, metaNull, enqueued,
                    mongoAttempted >>

\* A listener that started without failure, and the line it is given.
InitLine ==
    /\ revision = "sqliteMongo"
    /\ procState = "running"
    /\ exitCode = Null
    /\ sqliteInitialized = TRUE
    /\ mongoUpdateInterval = TRUE
    /\ logSubscriptionId = 0
    /\ mongoQueue = << >>
    /\ newTokens = << >>
    /\ sqlite = {}
    /\ mongo = {}
    /\ pipelines = {}
    /\ flushes = [f \in FlushKinds |-> IdleFlush]
    /\ stopPc = "idle"
    /\ nextEvent = 1
    /\ eventLog = [e \in EventIds |-> "none"]
    /\ metaNull = {}
    /\ primaryWrites = << >>
    /\ enqueued = {}
    /\ mongoAttempted = {}
    /\ FetchIdle
    /\ logLine \in LogLines
    /\ linePc = "delivered"
    /\ decodedEvent = NoEvent
    /\ processCreateEventCalls = 0
    /\ StoreIdle
    /\ ToolIdle

NextLine ==
    \/ \E d \in DecodeOutcomes, e \in CreateEvents, w \in StoreOutcomes :
          OnLogLine(d, e, w)
    \/ GetTokenMetadataFromUri
    \/ \E o \in RequestOutcomes : FetchSettles(o)
    \/ BackoffElapsed
    \/ \E m \in FetchResults, w \in StoreOutcomes : ProcessCreateEventResumes(m, w)

SpecLine == InitLine /\ [][NextLine]_vars

\* C14: processCreateEvent has been invoked for a line only if the line
\* has the "Program data:" marker and its payload decodes to at least 8
\* bytes of which the first 8 are 27, 114, 169, 77, 222, 235, 99, 118;
\* for every other line the number of invocations stays zero.
C14_OnlyCreatePayloadsAreProcessed ==
    LET eventData == Base64Decode(logLine.base64Data)
    IN  processCreateEventCalls > 0
        => /\ logLine.hasMarker
           /\ Len(eventData) >= 8
           /\ \A k \in 1 .. 8 : eventData[k] = CREATE_EVENT_DISCRIMINATOR[k]

C14_Witness ==
    /\ processCreateEventCalls = 1
    /\ logLine.hasMarker
    /\ Len(Base64Decode(logLine.base64Data)) = 8

\* C15: when the pipeline of a well-formed create line has run to its end,
\* the primary insert has been called exactly once, with a record whose
\* complete is false and whose bondingCurveAddress, tokenAddress, creator,
\* name, symbol and uri are those of the decoded event; the store holds
\* that record if the insert succeeded.
C15_OneWriteOfTheDecodedEvent ==
    /\ processCreateEventCalls <= 1
    /\ processCreateEventCalls = 0 => primaryWrites = << >>
    /\ (processCreateEventCalls = 1 /\ linePc = "done")
       => /\ Len(primaryWrites) = 1
          /\ primaryWrites[1].complete = FALSE
          /\ primaryWrites[1].bondingCurveAddress = decodedEvent.bonding_curve.base58
          /\ primaryWrites[1].tokenAddress = decodedEvent.mint.base58
          /\ primaryWrites[1].creator = decodedEvent.creator.base58
          /\ primaryWrites[1].name = decodedEvent.name.value
          /\ primaryWrites[1].symbol = decodedEvent.symbol.value
          /\ primaryWrites[1].uri = decodedEvent.uri.value
          /\ sqlite \subseteq {primaryWrites[1]}
          /\ Len(newTokens) = 1 => sqlite = {primaryWrites[1]}

C15_Witness ==
    /\ linePc = "done"
    /\ processCreateEventCalls = 1
    /\ decodedEvent.uri.value = << "a", ":" >>
    /\ fetchResult = "null"
    /\ Len(outcomes) = 5
    /\ sqlite # {}

(***************************************************************************)
(* The primary store under its writers                                     *)
(*                                                                         *)
(* The tokens table of db/sqlite.ts (better-sqlite3) or of db/queries.ts   *)
(* (drizzle on Postgres), written by the listener (insertToken, always     *)
(* with complete false), by the backfill (getFreshTokenList, a batch       *)
(* upsert on Postgres) and by the sync from MongoDB (a batch upsert on     *)
(* SQLite).  A row keeps its two unique addresses, complete, name and      *)
(* updatedAt; name stands for the six text columns, which every statement  *)
(* treats alike.  id is left out, and createdAt is until the section on    *)
(* that column.                                                            *)
(***************************************************************************)

\* Latest time the clock reaches.
MaxClock == 1

Engines == {"sqlite", "postgres"}

BondingCurveAddresses == {"B1", "B2"}

TokenAddresses == {"T1", "T2"}

Names == {"x", "y"}

\* Absent: null in the code.
Absent == "null"

\* TokenDocument
TokenDocuments ==
    [bondingCurveAddress : BondingCurveAddresses,
     tokenAddress        : TokenAddresses,
     complete            : BOOLEAN,
     name                : Names]

\* The tokenDocument of processCreateEvent: complete is false.
ListenerDocuments == {d \in TokenDocuments : d.complete = FALSE}

\* The documents getAllTokensMongoDB returns: the collection has a unique
\* index on tokenAddress and one on bondingCurveAddress.
MongoTokenLists ==
    {<< d >> : d \in TokenDocuments}
    \cup {l \in TokenDocuments \X TokenDocuments :
             /\ l[1].bondingCurveAddress # l[2].bondingCurveAddress
             /\ l[1].tokenAddress # l[2].tokenAddress}

\* The columns a statement gives the row it inserts at time t.
RowOf(doc, t) ==
    [bondingCurveAddress |-> doc.bondingCurveAddress,
     tokenAddress        |-> doc.tokenAddress,
     complete            |-> doc.complete,
     name                |-> doc.name,
     updatedAt           |-> t]

\* bondingCurveAddress TEXT UNIQUE NOT NULL, tokenAddress TEXT UNIQUE NOT
\* NULL: the rows a new row would violate a constraint with.
Conflicts(rs, doc) ==
    {r \in rs : \/ r.bondingCurveAddress = doc.bondingCurveAddress
                \/ r.tokenAddress = doc.tokenAddress}

\* An update that does not look at the stored values.
AlwaysDiffers(r, doc) == TRUE

\* complete != ? OR creator != ? OR name != ? OR ...
NonKeyDiffers(r, doc) == r.complete # doc.complete \/ r.name # doc.name

\* SET complete = ?, ..., updatedAt = datetime('now')
UpdateRow(r, doc, t) ==
    [r EXCEPT !.complete = doc.complete, !.name = doc.name, !.updatedAt = t]

\* sqlite.ts insertToken: INSERT OR REPLACE deletes every row the new row
\* conflicts with and inserts the new row; a failing statement is caught.
SqliteInsertToken(rs, doc, t, outcome) ==
    IF outcome = "fail"
      THEN [rows |-> rs, ok |-> FALSE]
      ELSE [rows |-> (rs \ Conflicts(rs, doc)) \cup {RowOf(doc, t)}, ok |-> TRUE]

\* queries.ts insertToken: ON CONFLICT (token_address) DO UPDATE without a
\* condition; a conflict on bonding_curve_address alone is an error, which
\* is caught.
DrizzleInsertToken(rs, doc, t, outcome) ==
    IF outcome = "fail"
      THEN [rows |-> rs, ok |-> FALSE]
    ELSE IF \E r \in rs : r.tokenAddress = doc.tokenAddress
      THEN [rows |-> {IF r.tokenAddress = doc.tokenAddress
                        THEN UpdateRow(r, doc, t) ELSE r : r \in rs},
            ok   |-> TRUE]
    ELSE IF Conflicts(rs, doc) # {}
      THEN [rows |-> rs, ok |-> FALSE]
    ELSE [rows |-> rs \cup {RowOf(doc, t)}, ok |-> TRUE]

\* insertTokenToSQL or insertTokenToDB, by the store in use.
InsertTokenToStore(eng, rs, doc, t, outcome) ==
    IF eng = "sqlite"
      THEN SqliteInsertToken(rs, doc, t, outcome)
      ELSE DrizzleInsertToken(rs, doc, t, outcome)

\* The rows of a transaction and its counters before the first token.
BatchStart(rs) ==
    [rows |-> rs, inserted |-> 0, duplicates |-> 0, errors |-> 0,
     aborted |-> FALSE]

\* sqlite.ts insertTokensBatch, one token: INSERT OR IGNORE, and when it
\* changed nothing the UPDATE ... WHERE tokenAddress = ? AND (a column
\* differs).
SqliteBatchToken(acc, doc, t) ==
    IF Conflicts(acc.rows, doc) = {}
      THEN [acc EXCEPT !.rows = @ \cup {RowOf(doc, t)}, !.inserted = @ + 1]
    ELSE IF \E r \in acc.rows :
               r.tokenAddress = doc.tokenAddress /\ NonKeyDiffers(r, doc)
      THEN [acc EXCEPT
              !.rows = {IF r.tokenAddress = doc.tokenAddress
                          THEN UpdateRow(r, doc, t) ELSE r : r \in acc.rows},
              !.inserted = @ + 1]
    ELSE [acc EXCEPT !.duplicates = @ + 1]

\* queries.ts insertTokensBatch, one token: ON CONFLICT (token_address) DO
\* UPDATE ... WHERE a column differs, RETURNING id.  A conflict on
\* bonding_curve_address alone is an error that aborts the transaction:
\* every later statement fails too.
DrizzleBatchToken(acc, doc, t) ==
    IF acc.aborted
      THEN [acc EXCEPT !.errors = @ + 1]
    ELSE IF \E r \in acc.rows : r.tokenAddress = doc.tokenAddress
      THEN IF \E r \in acc.rows :
                 r.tokenAddress = doc.tokenAddress /\ NonKeyDiffers(r, doc)
             THEN [acc EXCEPT
                     !.rows = {IF r.tokenAddress = doc.tokenAddress
                                 THEN UpdateRow(r, doc, t) ELSE r : r \in acc.rows},
                     !.inserted = @ + 1]
             ELSE [acc EXCEPT !.duplicates = @ + 1]
    ELSE IF Conflicts(acc.rows, doc) # {}
      THEN [acc EXCEPT !.errors = @ + 1, !.aborted = TRUE]
    ELSE [acc EXCEPT !.rows = @ \cup {RowOf(doc, t)}, !.inserted = @ + 1]

\* for (const token of tokens) { ... } inside the transaction: the tokens
\* are taken in the order of the list (first half, then second half), each
\* adding one to one of the counters.
RECURSIVE BatchLoop(_, _, _, _)
BatchLoop(eng, acc, list, t) ==
    IF list = << >> THEN acc
    ELSE IF Len(list) = 1
      THEN IF eng = "sqlite"
             THEN SqliteBatchToken(acc, Head(list), t)
             ELSE DrizzleBatchToken(acc, Head(list), t)
    ELSE LET half == Len(list) \div 2
             done == BatchLoop(eng, acc, SubSeq(list, 1, half), t)
             Handled(x) == x.inserted + x.duplicates + x.errors
         IN  IF Handled(done) = Handled(acc) + half
               THEN BatchLoop(eng, done, SubSeq(list, half + 1, Len(list)), t)
               ELSE done

\* insertTokensBatch: the transaction commits, or, aborted, leaves the
\* table as it was; the counters are returned as they are.
InsertTokensBatch(eng, rs, list, t) ==
    LET acc == BatchLoop(eng, BatchStart(rs), list, t)
    IN  [rows   |-> IF acc.aborted THEN rs ELSE acc.rows,
         result |-> [ok |-> TRUE, inserted |-> acc.inserted,
                     duplicates |-> acc.duplicates, errors |-> acc.errors]]

\* The clock advances.
Tick ==
    /\ now < MaxClock
    /\ now' = now + 1
    /\ UNCHANGED << engine, tokens, lastCall, backfillPc, newAddresses,
                    addressIndex, tokenBatch, unenriched, backfillRun >>
    /\ UNCHANGED << listenerVars, fetchVars, lineVars, toolVars >>

\* The listener commits the tokenDocument of a create event:
\* insertTokenToSQL or insertTokenToDB.
ListenerCommit(doc, outcome) ==
    /\ LET r == InsertTokenToStore(engine, tokens, doc, now, outcome)
       IN  /\ tokens' = r.rows
           /\ lastCall' = [op |-> "insertToken",
                           result |-> [ok |-> r.ok, inserted |-> 0,
                                       duplicates |-> 0, errors |-> 0]]
    /\ UNCHANGED << engine, now, backfillPc, newAddresses, addressIndex,
                    tokenBatch, unenriched, backfillRun >>
    /\ UNCHANGED << listenerVars, fetchVars, lineVars, toolVars >>

\* format of dataSyncUtility.ts on the fields of the model: Boolean() of
\* a boolean, safeString of a string, and safeString(name) || 'Unknown
\* Token'; createdAt and updatedAt are not carried over.
Format(token) ==
    [bondingCurveAddress |-> token.bondingCurveAddress,
     tokenAddress        |-> token.tokenAddress,
     complete            |-> token.complete,
     name                |-> IF token.name = "" THEN "Unknown Token" ELSE token.name]

\* list.map(token => format(token))
FormatAll(list) == [i \in DOMAIN list |-> Format(list[i])]

\* const BATCH_SIZE = 1000 of the two sync functions
SYNC_BATCH_SIZE == 1000

\* Math.ceil(list.length / BATCH_SIZE)
NumChunks(list) == (Len(list) + SYNC_BATCH_SIZE - 1) \div SYNC_BATCH_SIZE

\* A variant of the one below that leaves out the last record of a chunk.
ChunkWithoutItsLast(list, k) ==
    SubSeq(list, (k - 1) * SYNC_BATCH_SIZE + 1,
           (IF k * SYNC_BATCH_SIZE < Len(list) THEN k * SYNC_BATCH_SIZE
                                             ELSE Len(list)) - 1)

\* list.slice(i, i + BATCH_SIZE) for i = (k - 1) * BATCH_SIZE
ChunkOf(list, k) ==
    SubSeq(list, (k - 1) * SYNC_BATCH_SIZE + 1,
           IF k * SYNC_BATCH_SIZE < Len(list) THEN k * SYNC_BATCH_SIZE
                                              ELSE Len(list))

\* totalInserted += batchResult.inserted, and so on
AddCounts(total, batchResult) ==
    [ok         |-> TRUE,
     inserted   |-> total.inserted + batchResult.inserted,
     duplicates |-> total.duplicates + batchResult.duplicates,
     errors     |-> total.errors + batchResult.errors]

\* catch (batchError) { totalErrors += batch.length }
BatchFailed(batch) ==
    [ok |-> TRUE, inserted |-> 0, duplicates |-> 0, errors |-> Len(batch)]

\* The chunk loop of syncMongoToSQLite from chunk k on: a chunk whose
\* insertTokensBatchToSQL throws is counted as errors and the loop goes on.
RECURSIVE SqliteChunkLoop(_, _, _, _, _, _)
SqliteChunkLoop(eng, acc, list, chunkOutcomes, k, t) ==
    IF k > NumChunks(list) THEN acc
    ELSE LET batch == ChunkOf(list, k)
             r     == IF chunkOutcomes[k] = "throw"
                        THEN [rows |-> acc.rows, result |-> BatchFailed(batch)]
                        ELSE InsertTokensBatch(eng, acc.rows, batch, t)
         IN  SqliteChunkLoop(eng,
                             [rows   |-> r.rows,
                              result |-> AddCounts(acc.result, r.result)],
                             list, chunkOutcomes, k + 1, t)

\* syncMongoToSQLite: every document of the secondary store goes through
\* format and, in chunks of 1000, through insertTokensBatchToSQL.
SyncMongoToSQLite(mongoTokens, chunkOutcomes) ==
    /\ engine = "sqlite"
    /\ LET r == SqliteChunkLoop(engine, [rows |-> tokens, result |-> NoCall.result],
                                FormatAll(mongoTokens), chunkOutcomes, 1, now)
       IN  /\ tokens' = r.rows
           /\ lastCall' = [op |-> "syncMongoToSQLite",
                           result |-> r.result]
    /\ UNCHANGED << engine, now, backfillPc, newAddresses, addressIndex,
                    tokenBatch, unenriched, backfillRun >>
    /\ UNCHANGED << listenerVars, fetchVars, lineVars, toolVars >>

\* The batches getFreshTokenList can collect: one document, or two of
\* different bonding curves (each address is processed once).
BatchLists ==
    {<< d >> : d \in TokenDocuments}
    \cup {l \in TokenDocuments \X TokenDocuments :
             l[1].bondingCurveAddress # l[2].bondingCurveAddress}

\* The batch upsert of getFreshTokenList as the store sees it:
\* insertTokensBatchToDB(tokenBatch).
BackfillBatch(batch) ==
    /\ engine = "postgres"
    /\ LET r == InsertTokensBatch(engine, tokens, batch, now)
       IN  /\ tokens' = r.rows
           /\ lastCall' = [op |-> "insertTokensBatch", result |-> r.result]
    /\ UNCHANGED << engine, now, backfillPc, newAddresses, addressIndex,
                    tokenBatch, unenriched, backfillRun >>
    /\ UNCHANGED << listenerVars, fetchVars, lineVars, toolVars >>

\* const BATCH_SIZE = 100
BATCH_SIZE == 100

\* The bonding curve accounts the chain can report, in the order reported.
ProgramAccountLists ==
    {<< >>, << "B1" >>, << "B2" >>, << "B1", "B2" >>, << "B2", "B1" >>}

\* A variant of the one below that keeps every address.
KeepAll(addresses, existing) == addresses

\* bondingAddresses.filter(address => !existingAddresses.includes(address))
FilterNew(addresses, existing) ==
    LET IsNew(address) == address \notin existing
    IN  SelectSeq(addresses, IsNew)

\* getFreshTokenList up to its loop: the accounts on chain without those
\* whose bonding curve address is stored already.
GetFreshTokenList(bondingAddresses) ==
    /\ engine = "postgres"
    /\ backfillPc = "idle"
    /\ LET existingAddresses == {r.bondingCurveAddress : r \in tokens}
           fresh == FilterNew(bondingAddresses, existingAddresses)
       IN  /\ newAddresses' = fresh
           /\ IF fresh = << >>
                THEN /\ backfillPc' = "idle"
                     /\ addressIndex' = 0
                ELSE /\ backfillPc' = "run"
                     /\ addressIndex' = 1
    /\ tokenBatch' = << >>
    /\ unenriched' = {}
    /\ backfillRun' = [bondingAddresses  |-> bondingAddresses,
                       existingAddresses |-> {r.bondingCurveAddress : r \in tokens},
                       attempted         |-> << >>]
    /\ UNCHANGED << engine, tokens, now, lastCall >>
    /\ UNCHANGED << listenerVars, fetchVars, lineVars, toolVars >>

\* What getBondingCurveData returns: null or the decoded account.
BondingCurveResults ==
    {[isNull |-> TRUE, complete |-> FALSE],
     [isNull |-> FALSE, complete |-> FALSE],
     [isNull |-> FALSE, complete |-> TRUE]}

\* A descriptive field filled in without metadata.
EmptyName == ""

\* getDataWithBondingCurveAddress: null (here the empty sequence) when the
\* account, the mint or the metadata is missing, else the TokenDocument
\* (here a sequence of one).
GetDataWithBondingCurveAddress(bondingCurveAddress, bondingCurveData, tokenAddress, tokenData) ==
    IF bondingCurveData.isNull \/ tokenAddress = Absent \/ tokenData = Absent
      THEN << >>
      ELSE << [bondingCurveAddress |-> bondingCurveAddress,
               tokenAddress        |-> tokenAddress,
               complete            |-> bondingCurveData.complete,
               name                |-> tokenData] >>

\* A variant of the one below that steps over an address.
SkipsAnAddress(i) == i + 2

\* i++ of the for loop; the catch block ends in "continue", so the loop
\* goes on from here after a failure as well.
NextAddressIndex(i) == i + 1

\* A variant of the one below that stores full batches only.
StoresFullBatchesOnly(batch, last) == Len(batch) >= BATCH_SIZE

\* if (tokenBatch.length >= BATCH_SIZE || i === newAddresses.length - 1)
\*   if (tokenBatch.length > 0)
ShouldStore(batch, last) == (Len(batch) >= BATCH_SIZE \/ last) /\ Len(batch) > 0

\* One round of the loop of getFreshTokenList: the lookups for
\* newAddresses[i], the push, and at the last index the batch upsert.
ProcessNewAddress(bondingCurveData, tokenAddress, tokenData) ==
    /\ backfillPc = "run"
    /\ LET address   == newAddresses[addressIndex]
           data      == GetDataWithBondingCurveAddress(address, bondingCurveData,
                                                       tokenAddress, tokenData)
           batch     == tokenBatch \o data
           last      == addressIndex = Len(newAddresses)
           flush     == ShouldStore(batch, last)
           r         == InsertTokensBatch(engine, tokens, batch, now)
       IN  /\ backfillRun' = [backfillRun EXCEPT !.attempted = Append(@, address)]
           /\ unenriched' =
                 IF ~bondingCurveData.isNull /\ tokenAddress # Absent
                    /\ tokenData = Absent
                   THEN unenriched \cup {tokenAddress}
                   ELSE unenriched
           /\ IF flush
                THEN /\ tokens' = r.rows
                     /\ lastCall' = [op |-> "insertTokensBatch",
                                     result |-> r.result]
                     /\ tokenBatch' = << >>
                ELSE /\ tokenBatch' = batch
                     /\ UNCHANGED << tokens, lastCall >>
           /\ IF NextAddressIndex(addressIndex) > Len(newAddresses)
                THEN backfillPc' = "idle" /\ addressIndex' = 0
                ELSE /\ backfillPc' = "run"
                     /\ addressIndex' = NextAddressIndex(addressIndex)
    /\ UNCHANGED << engine, now, newAddresses >>
    /\ UNCHANGED << listenerVars, fetchVars, lineVars, toolVars >>

InitStore ==
    /\ InitListener
    /\ revision = "sqliteMongo"
    /\ FetchIdle
    /\ LineIdle
    /\ engine \in Engines
    /\ tokens = {}
    /\ now = 0
    /\ lastCall = NoCall
    /\ BackfillIdle
    /\ ToolIdle

NextStore ==
    \/ Tick
    \/ \E d \in ListenerDocuments, w \in StoreOutcomes : ListenerCommit(d, w)
    \/ \E l \in MongoTokenLists : SyncMongoToSQLite(l, << "ok" >>)
    \/ \E l \in BatchLists : BackfillBatch(l)

SpecStore == InitStore /\ [][NextStore]_vars

\* The backfill next to a running Postgres listener.
InitBackfill ==
    /\ InitListener
    /\ revision = "postgres"
    /\ FetchIdle
    /\ LineIdle
    /\ engine = "postgres"
    /\ tokens = {}
    /\ now = 0
    /\ lastCall = NoCall
    /\ BackfillIdle
    /\ ToolIdle

NextBackfill ==
    \/ Tick
    \/ \E d \in ListenerDocuments, w \in StoreOutcomes : ListenerCommit(d, w)
    \/ \E a \in ProgramAccountLists : GetFreshTokenList(a)
    \/ \E c \in BondingCurveResults, t \in TokenAddresses \cup {Absent},
          m \in Names \cup {Absent} : ProcessNewAddress(c, t, m)

SpecBackfill == InitBackfill /\ [][NextBackfill]_vars

\* C11: when a backfill run has ended, every token of the run whose
\* bonding curve and mint resolved but whose metadata lookup returned null
\* is in the store, with empty descriptive fields.
C11_BackfillKeepsTokensWithoutMetadata ==
    backfillPc = "idle"
    => \A t \in unenriched :
          \E r \in tokens : r.tokenAddress = t /\ r.name = EmptyName

\* C16: no write turns the complete of a stored token from true to false.
C16_CompleteIsNeverReset ==
    [][\A r \in tokens, r2 \in tokens' :
          (r2.tokenAddress = r.tokenAddress /\ r.complete) => r2.complete]_vars

\* No two rows share a tokenAddress or a bondingCurveAddress.
UniqueKeys(rs) ==
    \A r1 \in rs, r2 \in rs :
       (\/ r1.tokenAddress = r2.tokenAddress
        \/ r1.bondingCurveAddress = r2.bondingCurveAddress) => r1 = r2

\* C17: after every write the two addresses are unique among the rows,
\* and a row that was there has been updated or left alone: every old row
\* has a row with one of its addresses, and there are no fewer rows.
C17_UniqueAndCollidingWriteUpdatesOrSkips ==
    [][/\ UniqueKeys(tokens')
       /\ Cardinality(tokens') >= Cardinality(tokens)
       /\ \A r \in tokens :
             \E r2 \in tokens' :
                \/ r2.tokenAddress = r.tokenAddress
                \/ r2.bondingCurveAddress = r.bondingCurveAddress]_vars

\* C18: every tokenAddress in the store before a step is in the store
\* after it.
C18_NoTokenAddressDisappears ==
    [][{r.tokenAddress : r \in tokens}
         \subseteq {r.tokenAddress : r \in tokens'}]_vars

\* Between two tables, a row's updatedAt differs only if a document of the
\* list with its tokenAddress differs from it in complete or name.
UpdatedOnlyWhereDiffers(before, after, list) ==
    \A r \in before, r2 \in after :
       (r2.tokenAddress = r.tokenAddress /\ r2.updatedAt # r.updatedAt)
       => \E k \in DOMAIN list :
             /\ list[k].tokenAddress = r.tokenAddress
             /\ (list[k].complete # r.complete \/ list[k].name # r.name)

\* C19: from every table the store can hold and for every list, the batch
\* upsert run a second time, at once or later, leaves as many rows as the
\* first run did; and in either run a row's updatedAt changes only if a
\* non-key field of an incoming document differs from the stored one.
C19_BatchUpsertIsIdempotent ==
    \A list \in BatchLists \cup MongoTokenLists, later \in {now, MaxClock} :
       LET once  == InsertTokensBatch(engine, tokens, list, now).rows
           twice == InsertTokensBatch(engine, once, list, later).rows
       IN  /\ Cardinality(twice) = Cardinality(once)
           /\ UpdatedOnlyWhereDiffers(tokens, once, list)
           /\ UpdatedOnlyWhereDiffers(once, twice, list)

\* A sync that found both of its documents stored and identical, at a
\* time later than their last update, and left them alone.
C19_Witness ==
    /\ lastCall.op = "syncMongoToSQLite"
    /\ lastCall.result.duplicates = 2
    /\ lastCall.result.inserted = 0
    /\ Cardinality(tokens) = 2
    /\ \A r \in tokens : r.updatedAt < now

\* C20: a single insert of a document whose two addresses are those of a
\* stored row succeeds and leaves that row with the document's fields;
\* when the document is identical to the row, the table, updatedAt
\* included, is as before.
C20_IdenticalInsertChangesNothing ==
    \A doc \in ListenerDocuments, r \in tokens :
       (/\ r.tokenAddress = doc.tokenAddress
        /\ r.bondingCurveAddress = doc.bondingCurveAddress)
       => LET res == InsertTokenToStore(engine, tokens, doc, now, "ok")
          IN  /\ res.ok
              /\ \E r2 \in res.rows :
                    /\ r2.tokenAddress = doc.tokenAddress
                    /\ r2.complete = doc.complete
                    /\ r2.name = doc.name
              /\ (r.complete = doc.complete /\ r.name = doc.name)
                 => res.rows = tokens

\* The elements of a sequence.
Range(seq) == {seq[i] : i \in DOMAIN seq}

\* A batch of records of curves and mints that are not stored yet.
IsFreshBatch(batch) ==
    \A i \in DOMAIN batch :
       /\ batch[i].bondingCurveAddress \notin {r.bondingCurveAddress : r \in tokens}
       /\ batch[i].tokenAddress \notin {r.tokenAddress : r \in tokens}

C23_EveryNewAddressIsAttemptedOnce ==
    /\ Len(backfillRun.attempted) <= Len(newAddresses)
    /\ backfillRun.attempted = SubSeq(newAddresses, 1, Len(backfillRun.attempted))
    /\ backfillPc = "run" => Len(backfillRun.attempted) = addressIndex - 1
    /\ backfillPc = "idle" => backfillRun.attempted = newAddresses

C23_Witness ==
    /\ backfillPc = "idle"
    /\ backfillRun.attempted = << "B1", "B2" >>
    /\ unenriched = {"T1"}
    /\ {r.bondingCurveAddress : r \in tokens} = {"B2"}

(***************************************************************************)
(* PumpFunTokenFetcher: the calls into the chain                           *)
(* getBondingCurvesFromProgramAccounts, getMintFromBondingCurveATA and     *)
(* getBondingCurveData, one call at a time.  A step is the issue of a      *)
(* request, the handling of its response, or the end of a cooldown.        *)
(***************************************************************************)

\* Number of requests one call is followed for.
MaxRequests == 7

ChainFunctions ==
    {"getBondingCurvesFromProgramAccounts", "getMintFromBondingCurveATA",
     "getBondingCurveData"}

\* What the awaited request of each function can come back with.
\* Enumeration: data.error with code -32600, data.error with another code,
\* data.result, a body with neither, or fetch/response.json() throwing.
\* Mint: an error with context.statusCode 429, any other error, or a
\* value of 0, 1 or more token accounts.
\* Account: the 429 error, any other error (the decoder's included), a
\* null value, or an account that decodes.
ChainResponses(fn) ==
    CASE fn = "getBondingCurvesFromProgramAccounts" ->
           {"rateLimited", "otherError", "result", "noResult", "throws"}
      [] fn = "getMintFromBondingCurveATA" ->
           {"status429", "throws", "noAccounts", "oneAccount", "manyAccounts"}
      [] fn = "getBondingCurveData" ->
           {"status429", "throws", "noValue", "account"}

\* A variant in which only the enumeration recognises a rate limit.
IsRateLimitOfEnumeration(fn, resp) == resp = "rateLimited"

\* data.error.code === -32600, contextError.context?.statusCode === 429
IsRateLimit(fn, resp) == resp \in {"rateLimited", "status429"}

\* A variant of the one below with one more retry.
MayRetryOnceMore(fn, r) ==
    IF fn = "getBondingCurvesFromProgramAccounts" THEN r < 6 ELSE TRUE

\* if (this.retries < 5) in the enumeration; the two readers repeat
\* without a counter.
MayRetry(fn, r) ==
    IF fn = "getBondingCurvesFromProgramAccounts" THEN r < 5 ELSE TRUE

\* setTimeout(resolve, 1000)
COOLDOWN_MS == 1000

\* A variant in which the errors thrown inside the try reach the caller.
ReturnValueUncaught(fn, resp) ==
    CASE resp = "result"     -> "accounts"
      [] resp = "oneAccount" -> "mint"
      [] resp = "account"    -> "bondingCurveData"
      [] resp \in {"noAccounts", "manyAccounts"} -> "exception"
      [] OTHER               -> "null"

\* What the function returns for a response it does not repeat on:
\* data.result || null, value[0]...mint, bondingCurveSchema.decode(...),
\* and null from every other branch and from the catch blocks (the two
\* "throw new Error" of the mint reader land in its own catch).
ReturnValue(fn, resp) ==
    CASE resp = "result"     -> "accounts"
      [] resp = "oneAccount" -> "mint"
      [] resp = "account"    -> "bondingCurveData"
      [] OTHER               -> "null"

\* this.retries after the function returned: reset on every path but the
\* early return of the "other error" branch.
RetriesAfterReturn(fn, resp, r) ==
    IF fn = "getBondingCurvesFromProgramAccounts" /\ resp # "otherError"
      THEN 0
      ELSE r

\* A call starts and issues its request.  (heliusUrl is a template
\* string set by the constructor, so the guard on it never throws.)
ChainCallStarts(fn) ==
    /\ chainCall.pc \in {"idle", "done"}
    /\ chainCall' = [fn |-> fn, pc |-> "request", requests |-> 1,
                     responses |-> << >>, waits |-> << >>, result |-> "none"]
    /\ UNCHANGED fetcherRetries
    /\ UNCHANGED << listenerVars, fetchVars, lineVars, storeVars, syncVars, imageVars,
                    lifecycleVars, runVars >>

\* The awaited request settles: a rate limit that may be repeated starts
\* the cooldown, anything else makes the call return.
ChainResponds(resp) ==
    /\ chainCall.pc = "request"
    /\ resp \in ChainResponses(chainCall.fn)
    /\ IF IsRateLimit(chainCall.fn, resp) /\ MayRetry(chainCall.fn, fetcherRetries)
         THEN /\ chainCall' = [chainCall EXCEPT
                                 !.pc = "wait",
                                 !.responses = Append(@, resp),
                                 !.waits = Append(@, COOLDOWN_MS)]
              /\ UNCHANGED fetcherRetries
         ELSE /\ chainCall' = [chainCall EXCEPT
                                 !.pc = "done",
                                 !.responses = Append(@, resp),
                                 !.result = ReturnValue(chainCall.fn, resp)]
              /\ fetcherRetries' =
                    RetriesAfterReturn(chainCall.fn, resp, fetcherRetries)
    /\ UNCHANGED << listenerVars, fetchVars, lineVars, storeVars, syncVars, imageVars,
                    lifecycleVars, runVars >>

\* The cooldown ends: this.retries++ in the enumeration, then the
\* recursive call issues the same request again.
CooldownElapsed ==
    /\ chainCall.pc = "wait"
    /\ chainCall.requests < MaxRequests
    /\ chainCall' = [chainCall EXCEPT !.pc = "request", !.requests = @ + 1]
    /\ fetcherRetries' =
          IF chainCall.fn = "getBondingCurvesFromProgramAccounts"
            THEN fetcherRetries + 1
            ELSE fetcherRetries
    /\ UNCHANGED << listenerVars, fetchVars, lineVars, storeVars, syncVars, imageVars,
                    lifecycleVars, runVars >>

\* A fetcher just constructed (retries = 0), outside any listener run.
InitChain ==
    /\ InitListener
    /\ revision = "postgres"
    /\ FetchIdle
    /\ LineIdle
    /\ StoreIdle
    /\ ToolIdle

NextChain ==
    \/ \E fn \in ChainFunctions : ChainCallStarts(fn)
    \/ \E resp \in UNION {ChainResponses(fn) : fn \in ChainFunctions} :
          ChainResponds(resp)
    \/ CooldownElapsed

SpecChain == InitChain /\ [][NextChain]_vars

\* Every response of the call so far was a rate limit.
OnlyRateLimited ==
    \A i \in DOMAIN chainCall.responses :
       IsRateLimit(chainCall.fn, chainCall.responses[i])

\* The last response of the call, "none" before the first.
LastResponse ==
    IF chainCall.responses = << >>
      THEN "none"
      ELSE chainCall.responses[Len(chainCall.responses)]

\* C21 as stated: under nothing but "too many requests" errors the
\* enumeration issues at most 5 requests.
C21_AtMostFiveAttempts ==
    (chainCall.fn = "getBondingCurvesFromProgramAccounts" /\ OnlyRateLimited)
    => chainCall.requests <= 5

\* C21, amended: under nothing but "too many requests" errors the
\* enumeration issues at most 6 requests (the first and 5 retries), waits
\* 1 second before each retry, and returns null when it ends.
C21_AtMostFiveRetries ==
    (chainCall.fn = "getBondingCurvesFromProgramAccounts" /\ OnlyRateLimited)
    => /\ chainCall.requests <= 6
       /\ \A i \in DOMAIN chainCall.waits : chainCall.waits[i] = 1000
       /\ chainCall.pc = "request" => Len(chainCall.waits) = chainCall.requests - 1
       /\ chainCall.pc = "done"
            => /\ chainCall.result = "null"
               /\ Len(chainCall.waits) = chainCall.requests - 1

C21_Witness ==
    /\ chainCall.fn = "getBondingCurvesFromProgramAccounts"
    /\ chainCall.pc = "done"
    /\ OnlyRateLimited
    /\ chainCall.requests = 6
    /\ Len(chainCall.waits) = 5
    /\ chainCall.result = "null"

\* C24: in the two readers every 429 is followed by a 1 second wait and
\* the same request again, a call never returns on a 429, and what it
\* returns is the result of the response that was not a 429.
C24_RateLimitIsRepeatedNeverReturned ==
    chainCall.fn \in {"getMintFromBondingCurveATA", "getBondingCurveData"}
    => /\ \A i \in DOMAIN chainCall.waits : chainCall.waits[i] = 1000
       /\ Len(chainCall.waits) =
             Cardinality({i \in DOMAIN chainCall.responses :
                             chainCall.responses[i] = "status429"})
       /\ LastResponse = "status429" => chainCall.pc \in {"wait", "request"}
       /\ chainCall.pc = "done"
            => /\ LastResponse # "status429"
               /\ chainCall.result = ReturnValue(chainCall.fn, LastResponse)
               /\ chainCall.requests = Len(chainCall.waits) + 1

C24_Witness ==
    /\ chainCall.fn = "getMintFromBondingCurveATA"
    /\ chainCall.pc = "done"
    /\ chainCall.responses = << "status429", "status429", "status429",
                                "status429", "status429", "status429", "oneAccount" >>
    /\ chainCall.result = "mint"

\* C25: when the owner has no token account or more than one, the mint
\* reader returns null on that response: no wait, no further request, no
\* exception.
C25_WrongAccountCountReturnsNull ==
    (chainCall.fn = "getMintFromBondingCurveATA"
       /\ LastResponse \in {"noAccounts", "manyAccounts"})
    => /\ chainCall.pc = "done"
       /\ chainCall.result = "null"
       /\ chainCall.requests = Len(chainCall.responses)

C25_Witness ==
    /\ chainCall.fn = "getMintFromBondingCurveATA"
    /\ chainCall.pc = "done"
    /\ chainCall.responses = << "manyAccounts" >>
    /\ chainCall.result = "null"

(***************************************************************************)
(* dataSyncUtility.ts: the two stores side by side                         *)
(***************************************************************************)

\* The documents the two stores start with; the empty name is what
\* format replaces.
SyncDocuments ==
    [bondingCurveAddress : BondingCurveAddresses,
     tokenAddress        : TokenAddresses,
     complete            : BOOLEAN,
     name                : {"x", ""}]

\* What a store can hold: both addresses are unique in either store.
SyncStores ==
    {S \in SUBSET SyncDocuments :
        \A d \in S, e \in S :
           d # e => /\ d.bondingCurveAddress # e.bondingCurveAddress
                    /\ d.tokenAddress # e.tokenAddress}

\* The orders in which a find() or SELECT can return the records of S.
Listings(S) == {l \in [1 .. Cardinality(S) -> S] : Range(l) = S}

\* insertMany(documents, {ordered: false}): every document is tried, one
\* that violates a unique index is left out and the stored one stays.
\* (The list is taken first half, then second half, in its order.)
RECURSIVE InsertMany(_, _)
InsertMany(docs, list) ==
    IF list = << >> THEN docs
    ELSE IF Len(list) = 1
      THEN IF Conflicts(docs, Head(list)) = {}
             THEN docs \cup {Head(list)}
             ELSE docs
    ELSE LET half == Len(list) \div 2
             done == InsertMany(docs, SubSeq(list, 1, half))
         IN  IF done # {}
               THEN InsertMany(done, SubSeq(list, half + 1, Len(list)))
               ELSE done

\* insertTokensBatchMongoDB: the counts of the bulk write (from the result
\* or from the MongoBulkWriteError), or errors = tokens.length on any
\* other error.
InsertTokensBatchMongoDB(docs, list, outcome) ==
    IF outcome = "error"
      THEN [docs   |-> docs,
            result |-> [ok |-> TRUE, inserted |-> 0, duplicates |-> 0,
                        errors |-> Len(list)]]
      ELSE LET after    == InsertMany(docs, list)
               inserted == Cardinality(after) - Cardinality(docs)
           IN  [docs   |-> after,
                result |-> [ok |-> TRUE, inserted |-> inserted,
                            duplicates |-> Len(list) - inserted,
                            errors |-> 0]]

\* The TokenDocument getAllTokensSQlite returns for a row.
DocumentOf(r) ==
    [bondingCurveAddress |-> r.bondingCurveAddress,
     tokenAddress        |-> r.tokenAddress,
     complete            |-> r.complete,
     name                |-> r.name]

\* The chunk loop of syncSQLiteToMongo from chunk k on.
RECURSIVE MongoChunkLoop(_, _, _, _)
MongoChunkLoop(acc, list, chunkOutcomes, k) ==
    IF k > NumChunks(list) THEN acc
    ELSE LET batch == ChunkOf(list, k)
             r     == IF chunkOutcomes[k] = "throw"
                        THEN [docs |-> acc.docs, result |-> BatchFailed(batch)]
                        ELSE InsertTokensBatchMongoDB(acc.docs, batch, chunkOutcomes[k])
         IN  MongoChunkLoop([docs   |-> r.docs,
                             result |-> AddCounts(acc.result, r.result)],
                            list, chunkOutcomes, k + 1)

\* syncSQLiteToMongo: every row of the primary store goes through format
\* and, in chunks of 1000, through the batch insert of the secondary
\* store.  sqliteTokens is the rows in the order the SELECT returned them.
SyncSQLiteToMongo(sqliteTokens, chunkOutcomes) ==
    /\ engine = "sqlite"
    /\ Len(sqliteTokens) = Cardinality(tokens)
    /\ Range(sqliteTokens) = {DocumentOf(r) : r \in tokens}
    /\ LET r == MongoChunkLoop([docs |-> collection, result |-> NoCall.result],
                               FormatAll(sqliteTokens), chunkOutcomes, 1)
       IN  /\ collection' = r.docs
           /\ lastCall' = [op |-> "syncSQLiteToMongo", result |-> r.result]
    /\ UNCHANGED << syncStatus, chainVars, imageVars, lifecycleVars, runVars >>
    /\ UNCHANGED << engine, tokens, now, backfillPc, newAddresses, addressIndex,
                    tokenBatch, unenriched, backfillRun >>
    /\ UNCHANGED << listenerVars, fetchVars, lineVars >>

\* stats?.totalTokens || 0
TotalTokensOrZero(stats) == IF stats.isNull THEN 0 ELSE stats.totalTokens

\* Math.abs
Abs(n) == IF n < 0 THEN -n ELSE n

\* The object checkSyncStatus returns for the two stats.
SyncStatusOf(mongoStats, sqliteStats) ==
    LET mongoTokens  == TotalTokensOrZero(mongoStats)
        sqliteTokens == TotalTokensOrZero(sqliteStats)
        difference   == Abs(mongoTokens - sqliteTokens)
    IN  [mongoTokens |-> mongoTokens, sqliteTokens |-> sqliteTokens,
         inSync |-> difference = 0, difference |-> difference]

\* What getMongoTokenStats and getTokenStatsFromSQL return: the count, or
\* null when it cannot be read.
StatsOf(rs, readable) ==
    IF readable THEN [isNull |-> FALSE, totalTokens |-> Cardinality(rs)]
                ELSE [isNull |-> TRUE, totalTokens |-> 0]

\* checkSyncStatus
CheckSyncStatus(mongoReadable, sqliteReadable) ==
    /\ syncStatus' = SyncStatusOf(StatsOf(collection, mongoReadable),
                                  StatsOf(tokens, sqliteReadable))
    /\ UNCHANGED << collection, chainVars, imageVars, lifecycleVars, runVars >>
    /\ UNCHANGED << listenerVars, fetchVars, lineVars, storeVars >>

\* The two stores as some earlier run left them.
InitSync ==
    /\ InitListener
    /\ revision = "sqliteMongo"
    /\ FetchIdle
    /\ LineIdle
    /\ engine = "sqlite"
    /\ tokens \in {{RowOf(d, 0) : d \in S} : S \in SyncStores}
    /\ now = 0
    /\ lastCall = NoCall
    /\ BackfillIdle
    /\ LifecycleIdle
    /\ RunIdle
    /\ fetcherRetries = 0
    /\ chainCall = NoChainCall
    /\ collection \in SyncStores
    /\ syncStatus = NoReport
    /\ metadata = NoMetadata
    /\ imageUrl = "none"

NextSync ==
    \/ \E l \in Listings({DocumentOf(r) : r \in tokens}), o \in {"ok", "error"} :
          SyncSQLiteToMongo(l, << o >>)
    \/ \E l \in Listings(collection), o \in {"ok", "throw"} :
          SyncMongoToSQLite(l, << o >>)
    \/ \E m \in BOOLEAN, q \in BOOLEAN : CheckSyncStatus(m, q)

SpecSync == InitSync /\ [][NextSync]_vars

\* C26: after a sync that reported no error, every record of the source
\* store is in the target store under its tokenAddress with the formatted
\* values of the source.
C26_SyncCopiesEverySourceRecord ==
    /\ (lastCall.op = "syncSQLiteToMongo" /\ lastCall.result.errors = 0)
       => \A r \in tokens : Format(DocumentOf(r)) \in collection
    /\ (lastCall.op = "syncMongoToSQLite" /\ lastCall.result.errors = 0)
       => \A d \in collection : Format(d) \in {DocumentOf(r) : r \in tokens}

\* C27: whatever the two stats calls return, the report has the absolute
\* difference of the two row counts, and inSync exactly when it is 0.
C27_SyncStatusIsTheCountDifference ==
    \A mongoReadable \in BOOLEAN, sqliteReadable \in BOOLEAN :
       LET report == SyncStatusOf(StatsOf(collection, mongoReadable),
                                  StatsOf(tokens, sqliteReadable))
       IN  /\ report.difference = Abs(Cardinality(tokens) - Cardinality(collection))
           /\ report.inSync <=> report.difference = 0

(***************************************************************************)
(* The image of the TokenMetadata built from a metadata document           *)
(***************************************************************************)

\* const imageFields = ['image_uri', 'logo', 'logoURI', 'icon']
ImageFields == << "image_uri", "logo", "logoURI", "icon" >>

\* for (const field of ['image', ...imageFields]) under metadata.properties
PropertiesFields ==
    << "properties.image", "properties.image_uri", "properties.logo",
       "properties.logoURI", "properties.icon" >>

\* files[0].uri || files[0].url
FileFields == << "files[0].uri", "files[0].url" >>

\* A metadata document, by what it has at each place the extraction looks
\* at: nothing ("absent"), a non-empty string ("string"; the string is
\* taken to be the name of the place, so that the places differ), and for
\* the top-level image also the empty string and a value that is not a
\* string.  A document without properties or without files has "absent"
\* at all their places.
MetadataDocuments ==
    {[place \in {"image"} \cup DOMAIN rest |->
         IF place = "image" THEN image ELSE rest[place]] :
       image \in {"absent", "empty", "nonString", "string"},
       rest \in [Range(ImageFields) \cup Range(PropertiesFields)
                   \cup Range(FileFields) -> {"absent", "string"}]}

\* The value at a place: the string, '' or what stands for the rest.
ValueAt(m, place) ==
    CASE m[place] = "string" -> place
      [] m[place] = "empty"  -> ""
      [] OTHER               -> m[place]

\* if (v && typeof v === 'string'), and for files if (v)
IsNonEmptyString(m, place) == m[place] = "string"

\* The first place of the list that holds a non-empty string, as the for
\* loops with their return find it; "none" when the loops fall through.
RECURSIVE FirstHit(_, _)
FirstHit(m, places) ==
    IF places = << >> THEN "none"
    ELSE IF IsNonEmptyString(m, Head(places)) THEN Head(places)
    ELSE FirstHit(m, Tail(places))

\* extractImageUrl (part_002)
ExtractImageUrl(m) ==
    IF IsNonEmptyString(m, "image") THEN ValueAt(m, "image")
    ELSE IF FirstHit(m, ImageFields) # "none"
      THEN ValueAt(m, FirstHit(m, ImageFields))
    ELSE IF FirstHit(m, PropertiesFields) # "none"
      THEN ValueAt(m, FirstHit(m, PropertiesFields))
    ELSE IF FirstHit(m, FileFields) # "none"
      THEN ValueAt(m, FirstHit(m, FileFields))
    ELSE ""

\* The image field of the TokenMetadata that getTokenMetadataFromUri
\* builds: this.extractImageUrl(metadata) in part_002, metadata.image in
\* part_005 and part_004.
TokenMetadataImage(rev, m) ==
    IF rev = "sqliteMongoV1" THEN ExtractImageUrl(m) ELSE ValueAt(m, "image")

\* The document has been parsed and the TokenMetadata is built from it.
BuildTokenMetadata ==
    /\ imageUrl = "none"
    /\ imageUrl' = TokenMetadataImage(revision, metadata)
    /\ UNCHANGED << metadata, chainVars, syncVars, lifecycleVars, runVars >>
    /\ UNCHANGED << listenerVars, fetchVars, lineVars, storeVars >>

InitImage ==
    /\ InitListener
    /\ FetchIdle
    /\ LineIdle
    /\ StoreIdle
    /\ LifecycleIdle
    /\ RunIdle
    /\ fetcherRetries = 0
    /\ chainCall = NoChainCall
    /\ collection = {}
    /\ syncStatus = NoReport
    /\ metadata \in MetadataDocuments
    /\ imageUrl = "none"

NextImage == BuildTokenMetadata

SpecImage == InitImage /\ [][NextImage]_vars

\* The order of the fallback chain.
FallbackChain ==
    << "image" >> \o ImageFields \o PropertiesFields \o FileFields

\* C29: the image is the first non-empty string along the fallback chain,
\* and the empty string when there is none.
C29_ImageFollowsTheFallbackChain ==
    imageUrl # "none"
    => imageUrl = IF FirstHit(metadata, FallbackChain) = "none"
                    THEN ""
                    ELSE FirstHit(metadata, FallbackChain)

(***************************************************************************)
(* The listener again: dispatch order and overlapping flushes              *)
(***************************************************************************)

\* The callback can be given the next log line.
DispatchEnabled ==
    ENABLED (\E k \in LineKinds, u \in UriKinds, w \in StoreOutcomes :
                Dispatch(k, u, w))

\* C28: the lines reach the decoder in the order of their delivery, and
\* while the subscription is open the next line can be dispatched
\* whatever pipelines are still waiting for their metadata.
C28_DispatchInOrderWithoutWaiting ==
    /\ \A e \in EventIds : eventLog[e] # "none" <=> e < nextEvent
    /\ (procState = "running" /\ logSubscriptionId # Null /\ stopPc = "idle"
          /\ nextEvent <= MaxEvents)
       => DispatchEnabled

\* The second line has gone through its whole pipeline while the first
\* still waits for its metadata.
C28_Witness ==
    /\ 1 \in pipelines
    /\ eventLog[1] = "fetching"
    /\ eventLog[2] = "primaryTrue"

\* The records a flush has taken in its current (or last) run: those it
\* has handed to insertToken and those still ahead in its snapshot.
TakenBy(f) ==
    flushes[f].ok \cup flushes[f].failed
      \cup {flushes[f].tokensToSync[j].tokenAddress :
               j \in DOMAIN flushes[f].tokensToSync}

\* C30: no record is in the snapshots of two flushes, none is both in a
\* snapshot and in the queue, and every record ever enqueued is in the
\* queue, in a snapshot or has been handed to insertToken.
C30_EachRecordInOneSnapshot ==
    LET queued == {mongoQueue[j].tokenAddress : j \in DOMAIN mongoQueue}
    IN  /\ \A f \in FlushKinds, g \in FlushKinds :
              f # g => TakenBy(f) \cap TakenBy(g) = {}
        /\ \A f \in FlushKinds : TakenBy(f) \cap queued = {}
        /\ \A id \in enqueued :
              \/ id \in queued
              \/ id \in mongoAttempted
              \/ \E f \in FlushKinds : id \in TakenBy(f)

\* A timer flush and a forced flush are both waiting on a write.
C30_Witness ==
    /\ flushes["timer"].pc = "run"
    /\ flushes["forced"].pc = "run"
    /\ TakenBy("timer") # {}
    /\ TakenBy("forced") # {}

(***************************************************************************)
(* The primary store again: createdAt                                      *)
(***************************************************************************)

\* createdAt DATETIME DEFAULT CURRENT_TIMESTAMP (created_at ... defaultNow()
\* on Postgres): no statement of the writers names the column, so a row
\* that a statement has inserted gets the time of the insert, and a row
\* that was updated in place keeps what it has.
DefaultCreatedAt(rows, t) ==
    {IF "createdAt" \in DOMAIN r
       THEN r
       ELSE [column \in DOMAIN r \cup {"createdAt"} |->
               IF column = "createdAt" THEN t ELSE r[column]] : r \in rows}

\* insertToken on the table with its createdAt column.
InsertTokenAt(doc, outcome) ==
    /\ LET r == InsertTokenToStore(engine, tokens, doc, now, outcome)
       IN  /\ tokens' = DefaultCreatedAt(r.rows, now)
           /\ lastCall' = [op |-> "insertToken",
                           result |-> [ok |-> r.ok, inserted |-> 0,
                                       duplicates |-> 0, errors |-> 0]]
    /\ UNCHANGED << engine, now, backfillPc, newAddresses, addressIndex,
                    tokenBatch, unenriched, backfillRun >>
    /\ UNCHANGED << listenerVars, fetchVars, lineVars, toolVars >>

\* insertTokensBatch on the table with its createdAt column.
InsertTokensBatchAt(list) ==
    /\ LET r == InsertTokensBatch(engine, tokens, list, now)
       IN  /\ tokens' = DefaultCreatedAt(r.rows, now)
           /\ lastCall' = [op |-> "insertTokensBatch", result |-> r.result]
    /\ UNCHANGED << engine, now, backfillPc, newAddresses, addressIndex,
                    tokenBatch, unenriched, backfillRun >>
    /\ UNCHANGED << listenerVars, fetchVars, lineVars, toolVars >>

NextCreated ==
    \/ Tick
    \/ \E d \in ListenerDocuments, w \in StoreOutcomes : InsertTokenAt(d, w)
    \/ \E l \in BatchLists : InsertTokensBatchAt(l)

SpecCreated == InitStore /\ [][NextCreated]_vars

\* C39: a write leaves the createdAt of every row whose token is in the
\* store before and after it as it was.
C39_CreatedAtIsKept ==
    [][\A r \in tokens, q \in tokens' :
          q.tokenAddress = r.tokenAddress => q.createdAt = r.createdAt]_vars

(***************************************************************************)
(* The metadata fetch again: responses that are not usable                 *)
(***************************************************************************)

\* C38: a response that is not ok is followed, while attempts remain, by
\* the wait of 1000 * 2^attempt ms that a network error at the same attempt
\* is followed by, and then by the next request; a 2xx response whose
\* content type is not application/json is the last thing the call sees:
\* it returns null with no wait and no request after it.
C38_HttpErrorsRetryNonJsonGivesUp ==
    \A k \in DOMAIN outcomes :
       /\ outcomes[k] \in {"httpError", "timeout"}
            => /\ k < maxRetries
                    => /\ Len(delays) >= k
                       /\ delays[k] = 1000 * (2 ^ (k - 1))
                       /\ \/ requests >= k + 1
                          \/ (fetchPc = "backoff" /\ k = Len(outcomes))
               /\ k >= maxRetries
                    => (Len(delays) = k - 1 /\ fetchPc = "done"
                          /\ fetchResult = "null")
       /\ outcomes[k] = "notJson"
            => /\ k = Len(outcomes)
               /\ fetchPc = "done"
               /\ fetchResult = "null"
               /\ requests = k
               /\ Len(delays) = k - 1

\* A response that was not ok was waited for and retried, and the retry
\* came back with another content type.
C38_Witness ==
    /\ maxRetries = DefaultMaxRetries
    /\ outcomes = << "httpError", "notJson" >>
    /\ delays = << 1000 >>
    /\ requests = 2
    /\ fetchPc = "done"
    /\ fetchResult = "null"

(***************************************************************************)
(* The fetcher again: the retry counter between calls                      *)
(***************************************************************************)

\* C32: a top-level call of getBondingCurvesFromProgramAccounts issues its
\* first request with the retry counter at 0.
C32_EveryCallStartsAtZero ==
    (/\ chainCall.fn = "getBondingCurvesFromProgramAccounts"
     /\ chainCall.pc = "request"
     /\ chainCall.requests = 1)
    => fetcherRetries = 0

(***************************************************************************)
(* startListening and stopListening as public methods of the listener      *)
(***************************************************************************)

\* Number of calls of the two methods in a behaviour.
MaxCalls == 3

\* connection.onLogs registers the callback under the next subscription id
\* (ids count from 0) and returns the id; when it throws nothing is
\* registered and logSubscriptionId keeps its value.
OnLogs(onLogsOk) ==
    IF onLogsOk
      THEN /\ onLogsListeners' = Append(onLogsListeners, TRUE)
           /\ logSubscriptionId' = Len(onLogsListeners)
      ELSE UNCHANGED << onLogsListeners, logSubscriptionId >>

\* startMongoUpdateTimer: this.mongoUpdateInterval = setInterval(...).  The
\* handle held before, if any, is overwritten and its timer keeps running.
StartMongoUpdateTimer ==
    /\ intervals' = Append(intervals, TRUE)
    /\ mongoUpdateInterval' = TRUE

\* startListening up to its first await.  The SQLite+MongoDB revisions
\* await initializeSQLite; the Postgres revision has no await and opens
\* the subscription in the same segment.
StartListeningCalled(onLogsOk) ==
    /\ Len(lifecycleCalls) < MaxCalls
    /\ IF HasMongoQueue(revision)
         THEN /\ lifecycleCalls' = Append(lifecycleCalls,
                    [fn |-> "startListening", pc |-> "initializeSQLite", id |-> Null])
              /\ UNCHANGED << onLogsListeners, logSubscriptionId >>
         ELSE /\ lifecycleCalls' = Append(lifecycleCalls,
                    [fn |-> "startListening", pc |-> "returned", id |-> Null])
              /\ OnLogs(onLogsOk)
    /\ UNCHANGED << intervals, mongoUpdateInterval, sqliteInitialized >>
    /\ UNCHANGED << revision, procState, exitCode, mongoQueue, newTokens, sqlite,
                    mongo, pipelines, flushes, stopPc, nextEvent, eventLog,
                    metaNull, primaryWrites, enqueued, mongoAttempted >>
    /\ UNCHANGED << fetchVars, lineVars, storeVars, chainVars, syncVars, imageVars,
                    runVars >>

\* initializeSQLite settles: it throws when the database could not be
\* opened, and the catch block of startListening logs; otherwise the timer
\* is started, the subscription opened, and startListening returns.
StartListeningResumes(c, sqliteOk, onLogsOk) ==
    /\ c \in DOMAIN lifecycleCalls
    /\ lifecycleCalls[c].pc = "initializeSQLite"
    /\ lifecycleCalls' = [lifecycleCalls EXCEPT ![c].pc = "returned"]
    /\ sqliteInitialized' = (sqliteInitialized \/ sqliteOk)
    /\ IF sqliteInitialized \/ sqliteOk
         THEN StartMongoUpdateTimer /\ OnLogs(onLogsOk)
         ELSE UNCHANGED << intervals, mongoUpdateInterval, onLogsListeners,
                           logSubscriptionId >>
    /\ UNCHANGED << revision, procState, exitCode, mongoQueue, newTokens, sqlite,
                    mongo, pipelines, flushes, stopPc, nextEvent, eventLog,
                    metaNull, primaryWrites, enqueued, mongoAttempted >>
    /\ UNCHANGED << fetchVars, lineVars, storeVars, chainVars, syncVars, imageVars,
                    runVars >>

\* stopListening after the subscription part: clearInterval on the handle
\* held, which is the one created last, then the final flush, which
\* returns at once on the empty queue.
StopListeningTail ==
    IF HasMongoQueue(revision) /\ mongoUpdateInterval
      THEN /\ intervals' = [intervals EXCEPT ![Len(intervals)] = FALSE]
           /\ mongoUpdateInterval' = FALSE
      ELSE UNCHANGED << intervals, mongoUpdateInterval >>

\* stopListening up to its first await: with a subscription id held it
\* awaits removeOnLogsListener(id), otherwise it runs to its end.
StopListeningCalled ==
    /\ Len(lifecycleCalls) < MaxCalls
    /\ IF logSubscriptionId # Null
         THEN /\ lifecycleCalls' = Append(lifecycleCalls,
                    [fn |-> "stopListening", pc |-> "removeOnLogsListener",
                     id |-> logSubscriptionId])
              /\ UNCHANGED << intervals, mongoUpdateInterval >>
         ELSE /\ lifecycleCalls' = Append(lifecycleCalls,
                    [fn |-> "stopListening", pc |-> "returned", id |-> Null])
              /\ StopListeningTail
    /\ UNCHANGED << onLogsListeners, logSubscriptionId, sqliteInitialized >>
    /\ UNCHANGED << revision, procState, exitCode, mongoQueue, newTokens, sqlite,
                    mongo, pipelines, flushes, stopPc, nextEvent, eventLog,
                    metaNull, primaryWrites, enqueued, mongoAttempted >>
    /\ UNCHANGED << fetchVars, lineVars, storeVars, chainVars, syncVars, imageVars,
                    runVars >>

\* removeOnLogsListener(id) settles: the subscription of that id is gone,
\* this.logSubscriptionId = null, and stopListening runs to its end.
StopListeningResumes(c) ==
    /\ c \in DOMAIN lifecycleCalls
    /\ lifecycleCalls[c].pc = "removeOnLogsListener"
    /\ lifecycleCalls' = [lifecycleCalls EXCEPT ![c].pc = "returned"]
    /\ onLogsListeners' = [onLogsListeners EXCEPT ![lifecycleCalls[c].id + 1] = FALSE]
    /\ logSubscriptionId' = Null
    /\ StopListeningTail
    /\ UNCHANGED sqliteInitialized
    /\ UNCHANGED << revision, procState, exitCode, mongoQueue, newTokens, sqlite,
                    mongo, pipelines, flushes, stopPc, nextEvent, eventLog,
                    metaNull, primaryWrites, enqueued, mongoAttempted >>
    /\ UNCHANGED << fetchVars, lineVars, storeVars, chainVars, syncVars, imageVars,
                    runVars >>

InitLifecycle ==
    /\ InitListener
    /\ FetchIdle
    /\ LineIdle
    /\ StoreIdle
    /\ ToolIdle

NextLifecycle ==
    \/ \E onLogsOk \in BOOLEAN : StartListeningCalled(onLogsOk)
    \/ \E c \in 1 .. MaxCalls, sqliteOk \in BOOLEAN, onLogsOk \in BOOLEAN :
          StartListeningResumes(c, sqliteOk, onLogsOk)
    \/ StopListeningCalled
    \/ \E c \in 1 .. MaxCalls : StopListeningResumes(c)

SpecLifecycle == InitLifecycle /\ [][NextLifecycle]_vars

\* The number of active entries of a registry.
ActiveCount(registry) == Cardinality({j \in DOMAIN registry : registry[j]})

\* C31: at most one log subscription and at most one flush timer are
\* active at any time, and when a call of stopListening returns none is.
C31_AtMostOneSubscriptionAndTimer ==
    [][/\ ActiveCount(onLogsListeners') <= 1
       /\ ActiveCount(intervals') <= 1
       /\ (\E c \in DOMAIN lifecycleCalls' :
              /\ lifecycleCalls'[c].fn = "stopListening"
              /\ lifecycleCalls'[c].pc = "returned"
              /\ (c \notin DOMAIN lifecycleCalls \/ lifecycleCalls[c].pc # "returned"))
          => (ActiveCount(onLogsListeners') = 0 /\ ActiveCount(intervals') = 0)]_vars

(***************************************************************************)
(* getFreshTokenList over runs long enough to fill a batch                 *)
(***************************************************************************)

\* The longest run fills this many batches and starts one more.
MaxBatches == 2

\* The numbers of bonding curves the chain lists in a run.
RunLengths == {1, 2, BATCH_SIZE, BATCH_SIZE + 1, MaxBatches * BATCH_SIZE + 1}

\* The accounts of a run, numbered in the order the chain lists them.
ProgramAccounts(n) == [i \in 1 .. n |-> i]

\* Which curves the chain has no complete answer for: none, the last one
\* of every run, every second one, or all of them.
MissingPatterns ==
    {{}, RunLengths,
     {a \in 1 .. MaxBatches * BATCH_SIZE + 1 : a % 2 = 0},
     1 .. MaxBatches * BATCH_SIZE + 1}

\* The TokenDocument assembled for a numbered curve; its mint carries the
\* number of the curve.
NumberedDocument(address) ==
    [bondingCurveAddress |-> address, tokenAddress |-> address,
     complete |-> FALSE, name |-> "x"]

\* One round of the loop of getFreshTokenList for a numbered curve:
\* getDataWithBondingCurveAddress gives null for a curve the chain cannot
\* answer for, a pushed record otherwise; then the batch step.
BackfillRound ==
    /\ engine = "postgres"
    /\ backfillPc = "run"
    /\ LET address == newAddresses[addressIndex]
           data    == IF address \in missingOnChain
                        THEN << >>
                        ELSE << NumberedDocument(address) >>
           batch   == tokenBatch \o data
           last    == addressIndex = Len(newAddresses)
           r       == InsertTokensBatch(engine, tokens, batch, now)
       IN  /\ backfillRun' = [backfillRun EXCEPT !.attempted = Append(@, address)]
           /\ IF ShouldStore(batch, last)
                THEN /\ tokens' = r.rows
                     /\ lastCall' = [op |-> "insertTokensBatch",
                                     result |-> r.result]
                     /\ tokenBatch' = << >>
                ELSE /\ tokenBatch' = batch
                     /\ UNCHANGED << tokens, lastCall >>
           /\ IF NextAddressIndex(addressIndex) > Len(newAddresses)
                THEN backfillPc' = "idle" /\ addressIndex' = 0
                ELSE /\ backfillPc' = "run"
                     /\ addressIndex' = NextAddressIndex(addressIndex)
    /\ UNCHANGED << engine, now, newAddresses, unenriched >>
    /\ UNCHANGED << listenerVars, fetchVars, lineVars, toolVars >>

InitBatching ==
    /\ InitListener
    /\ revision = "postgres"
    /\ FetchIdle
    /\ LineIdle
    /\ engine = "postgres"
    /\ tokens = {}
    /\ now = 0
    /\ lastCall = NoCall
    /\ BackfillIdle
    /\ LifecycleIdle
    /\ fetcherRetries = 0
    /\ chainCall = NoChainCall
    /\ collection = {}
    /\ syncStatus = NoReport
    /\ metadata = NoMetadata
    /\ imageUrl = "none"
    /\ bondingAddressesFile = << >>
    /\ cacheFile = << >>
    /\ missingOnChain \in MissingPatterns

NextBatching ==
    \/ \E n \in RunLengths : GetFreshTokenList(ProgramAccounts(n))
    \/ BackfillRound

SpecBatching == InitBatching /\ [][NextBatching]_vars

\* C34: between rounds the batch holds fewer than 100 records, so never
\* more than 100 with the push of a round; every record assembled in the
\* run is either in the batch or was stored, never both, no batch call was
\* given a record stored before, and after the loop the batch is empty.
C34_BatchesOfAtMostHundred ==
    LET inBatch == {tokenBatch[j].bondingCurveAddress : j \in DOMAIN tokenBatch}
        stored  == {r.bondingCurveAddress : r \in tokens}
    IN  /\ Len(tokenBatch) < BATCH_SIZE
        /\ Cardinality(inBatch) = Len(tokenBatch)
        /\ inBatch \cap stored = {}
        /\ \A a \in Range(backfillRun.attempted) :
              a \notin missingOnChain => a \in inBatch \cup stored
        /\ lastCall.op = "insertTokensBatch"
           => /\ lastCall.result.inserted \in 1 .. BATCH_SIZE
              /\ lastCall.result.duplicates = 0
              /\ lastCall.result.errors = 0
        /\ backfillPc = "idle" => tokenBatch = << >>

\* The longest run has ended with every curve answered: its full batches
\* and the rest of one record are stored.
C34_Witness ==
    /\ backfillPc = "idle"
    /\ missingOnChain = {}
    /\ Cardinality(tokens) = MaxBatches * BATCH_SIZE + 1
    /\ lastCall.result.inserted = 1

(***************************************************************************)
(* The file-based backfill of PumpfunToken.ts:                             *)
(* updateTokenList, processBondingCurves, appendToCache                    *)
(***************************************************************************)

\* const CACHE_INTERVAL = 1000
CACHE_INTERVAL == 1000

\* A run is started only while the cache file holds fewer records.
MaxCached == 2

\* The Token getDataWithBondingCurveAddress assembles for an address.
TokenOf(address) ==
    [bondingCurveAddress |-> address,
     tokenAddress        |-> IF address = "B1" THEN "T1" ELSE "T2"]

\* getDataWithBondingCurveAddress of PumpfunToken.ts: it throws when the
\* bonding curve data, the mint or the metadata came back null.
GetDataOrThrow(address) ==
    IF address \in missingOnChain THEN "throw" ELSE "token"

\* appendToCache: the file is read (taken as empty when unreadable), the
\* batch appended and the file written back.  A failing write is caught
\* and logged; the caller is not told.
AppendToCache(file, batch, writeOk) ==
    IF writeOk THEN file \o batch ELSE file

\* lastCall after appendToCache; ok stays true as long as no write to the
\* cache file has failed.
CacheCall(batch, writeOk) ==
    [op |-> "appendToCache",
     result |-> [ok |-> lastCall.result.ok /\ writeOk,
                 inserted |-> IF writeOk THEN Len(batch) ELSE 0,
                 duplicates |-> 0,
                 errors |-> IF writeOk THEN 0 ELSE Len(batch)]]

\* updateTokenList up to its loop.  The addresses already processed are
\* those of bonding_addresses.json; when there are new ones the file is
\* rewritten with all current addresses before any of them is processed.
\* (When getAllBondingCurves returns null the function throws before it
\* has read or written anything.)
UpdateTokenList(currentAddresses) ==
    /\ engine = "file"
    /\ backfillPc = "idle"
    /\ Len(cacheFile) < MaxCached
    /\ LET existingAddresses == Range(bondingAddressesFile)
           fresh == FilterNew(currentAddresses, existingAddresses)
       IN  /\ newAddresses' = fresh
           /\ backfillRun' = [bondingAddresses  |-> currentAddresses,
                              existingAddresses |-> existingAddresses,
                              attempted         |-> << >>]
           /\ IF fresh = << >>
                THEN /\ backfillPc' = "idle"
                     /\ addressIndex' = 0
                     /\ UNCHANGED bondingAddressesFile
                ELSE /\ backfillPc' = "run"
                     /\ addressIndex' = 1
                     /\ bondingAddressesFile' = currentAddresses
    /\ tokenBatch' = << >>
    /\ UNCHANGED << engine, tokens, now, lastCall, unenriched, cacheFile,
                    missingOnChain >>
    /\ UNCHANGED << listenerVars, fetchVars, lineVars, chainVars, syncVars,
                    imageVars, lifecycleVars >>

\* processBondingCurves(data, CACHE_INTERVAL, CACHE_FILE) up to its loop:
\* every address given is processed.
ProcessBondingCurves(data) ==
    /\ engine = "file"
    /\ backfillPc = "idle"
    /\ Len(cacheFile) < MaxCached
    /\ data # << >>
    /\ newAddresses' = data
    /\ backfillRun' = [bondingAddresses  |-> data,
                       existingAddresses |-> {},
                       attempted         |-> << >>]
    /\ backfillPc' = "run"
    /\ addressIndex' = 1
    /\ tokenBatch' = << >>
    /\ UNCHANGED << engine, tokens, now, lastCall, unenriched, bondingAddressesFile,
                    cacheFile, missingOnChain >>
    /\ UNCHANGED << listenerVars, fetchVars, lineVars, chainVars, syncVars,
                    imageVars, lifecycleVars >>

\* One round of either loop.  A throw of getDataWithBondingCurveAddress
\* lands in the catch block of the round, past the push and past the
\* caching step.  tokenBatch keeps what the loop leaves in it at its end.
CacheRound(writeOk) ==
    /\ engine = "file"
    /\ backfillPc = "run"
    /\ LET address == newAddresses[addressIndex]
           got     == GetDataOrThrow(address)
           batch   == Append(tokenBatch, TokenOf(address))
           last    == addressIndex = Len(newAddresses)
       IN  /\ backfillRun' = [backfillRun EXCEPT !.attempted = Append(@, address)]
           /\ IF got = "throw"
                THEN UNCHANGED << tokenBatch, cacheFile, lastCall >>
                ELSE IF Len(batch) >= CACHE_INTERVAL \/ last
                  THEN /\ cacheFile' = AppendToCache(cacheFile, batch, writeOk)
                       /\ lastCall' = CacheCall(batch, writeOk)
                       /\ tokenBatch' = << >>
                  ELSE /\ tokenBatch' = batch
                       /\ UNCHANGED << cacheFile, lastCall >>
           /\ IF NextAddressIndex(addressIndex) > Len(newAddresses)
                THEN backfillPc' = "idle" /\ addressIndex' = 0
                ELSE /\ backfillPc' = "run"
                     /\ addressIndex' = NextAddressIndex(addressIndex)
    /\ UNCHANGED << engine, tokens, now, newAddresses, unenriched,
                    bondingAddressesFile, missingOnChain >>
    /\ UNCHANGED << listenerVars, fetchVars, lineVars, chainVars, syncVars,
                    imageVars, lifecycleVars >>

\* No file exists yet; the chain lacks an answer for some of the addresses.
InitFileBackfill ==
    /\ InitListener
    /\ revision = "sqliteMongo"
    /\ FetchIdle
    /\ LineIdle
    /\ engine = "file"
    /\ tokens = {}
    /\ now = 0
    /\ lastCall = NoCall
    /\ BackfillIdle
    /\ LifecycleIdle
    /\ fetcherRetries = 0
    /\ chainCall = NoChainCall
    /\ collection = {}
    /\ syncStatus = NoReport
    /\ metadata = NoMetadata
    /\ imageUrl = "none"
    /\ bondingAddressesFile = << >>
    /\ cacheFile = << >>
    /\ missingOnChain \in SUBSET BondingCurveAddresses

NextFileBackfill ==
    \/ \E a \in ProgramAccountLists : UpdateTokenList(a)
    \/ \E a \in ProgramAccountLists : ProcessBondingCurves(a)
    \/ \E w \in BOOLEAN : CacheRound(w)

SpecFileBackfill == InitFileBackfill /\ [][NextFileBackfill]_vars

\* A record for the address is in the primary store or in the cache file.
IsStored(address) ==
    \/ \E r \in tokens : r.bondingCurveAddress = address
    \/ \E j \in DOMAIN cacheFile : cacheFile[j].bondingCurveAddress = address

\* C33: when a run begins (no write to the store having failed), every
\* listed address it does not take as new has a stored record, and a
\* listed address whose processing failed in the run before is new again.
C33_PersistedOnlyIfStored ==
    [][(backfillPc = "idle" /\ backfillRun' # backfillRun /\ lastCall.result.ok)
       => \A a \in Range(backfillRun'.bondingAddresses) :
             /\ a \notin Range(newAddresses') => IsStored(a)
             /\ (a \in Range(backfillRun.attempted) /\ GetDataOrThrow(a) = "throw")
                => a \in Range(newAddresses')]_vars

\* C35: when the loop has ended and no write to the cache file failed,
\* every record assembled in the run is in the cache file.
C35_AssembledRecordsAreCached ==
    (backfillPc = "idle" /\ lastCall.result.ok)
    => \A a \in Range(backfillRun.attempted) :
          GetDataOrThrow(a) = "token" => IsStored(a)


(***************************************************************************)
(* dataSyncUtility.ts: a sync run over more records than one chunk holds   *)
(***************************************************************************)

\* The numbers of records a store starts with: none, few, exactly one
\* chunk, and one more than a chunk.
SyncSizes == {0, 1, 2, SYNC_BATCH_SIZE, SYNC_BATCH_SIZE + 1}

\* The sizes of the primary and the secondary store at the start.
SyncSizePairs == SyncSizes \X SyncSizes

\* The record of the secondary store for a numbered curve: every second
\* one differs in its name from the record of the primary store.
MongoSideDocument(address) ==
    [NumberedDocument(address) EXCEPT
       !.name = IF address % 2 = 0 THEN "y" ELSE "x"]

\* getAllTokensSQlite / getAllTokensMongoDB: the n records of a store in
\* the order of their numbers.
SqliteListing(n) == [i \in 1 .. n |-> NumberedDocument(i)]
MongoListing(n) == [i \in 1 .. n |-> MongoSideDocument(i)]

\* What one chunk's write can do: return the counts of the write, return
\* errors = tokens.length, or throw.
ChunkOutcomes == {"ok", "error", "throw"}

InitChunks ==
    /\ InitListener
    /\ revision = "sqliteMongo"
    /\ FetchIdle
    /\ LineIdle
    /\ engine = "sqlite"
    /\ \E p \in SyncSizePairs :
          /\ tokens = {RowOf(NumberedDocument(i), 0) : i \in 1 .. p[1]}
          /\ collection = {MongoSideDocument(i) : i \in 1 .. p[2]}
    /\ now = 0
    /\ lastCall = NoCall
    /\ BackfillIdle
    /\ LifecycleIdle
    /\ RunIdle
    /\ fetcherRetries = 0
    /\ chainCall = NoChainCall
    /\ syncStatus = NoReport
    /\ metadata = NoMetadata
    /\ imageUrl = "none"

\* One run of the sync tool, in either direction.
NextChunks ==
    \/ /\ lastCall = NoCall
       /\ LET l == SqliteListing(Cardinality(tokens))
          IN  \E outs \in [1 .. NumChunks(l) -> ChunkOutcomes] :
                 SyncSQLiteToMongo(l, outs)
    \/ /\ lastCall = NoCall
       /\ LET l == MongoListing(Cardinality(collection))
          IN  \E outs \in [1 .. NumChunks(l) -> {"ok", "throw"}] :
                 SyncMongoToSQLite(l, outs)

SpecChunks == InitChunks /\ [][NextChunks]_vars

\* The chunks of a list of n records are its consecutive stretches of
\* SYNC_BATCH_SIZE records, the last one holding what is left.
ChunksPartition(n) ==
    LET list == [i \in 1 .. n |-> i]
    IN  /\ \A k \in 1 .. NumChunks(list) :
              LET batch == ChunkOf(list, k)
              IN  /\ Len(batch) \in 1 .. SYNC_BATCH_SIZE
                  /\ k < NumChunks(list) => Len(batch) = SYNC_BATCH_SIZE
                  /\ batch = [j \in 1 .. Len(batch) |-> (k - 1) * SYNC_BATCH_SIZE + j]
        /\ n > 0 => (NumChunks(list) - 1) * SYNC_BATCH_SIZE
                      + Len(ChunkOf(list, NumChunks(list))) = n
        /\ n = 0 => NumChunks(list) = 0

\* C36: when a sync run has returned, inserted + duplicates + errors is
\* the number of records read from the source store, and the chunks the
\* records were submitted in are consecutive stretches of at most 1000
\* records that together are the whole list; a chunk whose write threw is
\* in errors with its whole length and the later chunks are written.
C36_SyncCountsEveryRecordOnce ==
    LET total == lastCall.result.inserted + lastCall.result.duplicates
                   + lastCall.result.errors
    IN  /\ lastCall.op = "syncSQLiteToMongo"
             => /\ total = Cardinality(tokens)
                /\ ChunksPartition(Cardinality(tokens))
        /\ lastCall.op = "syncMongoToSQLite"
             => /\ total = Cardinality(collection)
                /\ ChunksPartition(Cardinality(collection))
                /\ lastCall.result.errors \in
                     {0, SYNC_BATCH_SIZE,
                      Cardinality(collection) - SYNC_BATCH_SIZE,
                      Cardinality(collection)}

\* The first chunk of 1001 records threw and the second one was written.
C36_Witness ==
    /\ lastCall.op = "syncMongoToSQLite"
    /\ Cardinality(collection) = SYNC_BATCH_SIZE + 1
    /\ lastCall.result.errors = SYNC_BATCH_SIZE
    /\ lastCall.result.inserted + lastCall.result.duplicates = 1

(***************************************************************************)
(* The fetcher's getTokenMetadata (the getAsset lookup)                    *)
(***************************************************************************)

\* The largest maxRetries a caller passes (the default is 3).
MaxRetriesArg == 3

\* initialDelay: number = 2000
InitialDelay == 2000

\* What the awaited fetch and response.json() of one attempt can come back
\* with: data.error with code 429; data.error whose message includes
\* 'Asset Not Found' or 'RecordNotFound'; data.error with another code and
\* another message; data.error that carries no message; data.result; or an
\* exception (fetch or response.json() throwing, a body without result).
AssetResponses ==
    {"rateLimited", "notFound", "otherError", "errorWithoutMessage",
     "result", "throws"}

RECURSIVE Pow2(_)
Pow2(n) == IF n = 0 THEN 1 ELSE 2 * Pow2(n - 1)

\* Math.min(initialDelay * Math.pow(2, attempt), 30000) for a rate limit,
\* initialDelay * Math.pow(2, attempt) for the others.
AssetDelay(resp, tryNo) ==
    IF resp = "rateLimited" /\ InitialDelay * Pow2(tryNo) > 30000
      THEN 30000
      ELSE InitialDelay * Pow2(tryNo)

\* A variant in which an error without a message is not retried.
EndsOnAnyOtherError(resp, tryNo, retriesArg) ==
    CASE resp = "rateLimited" -> "waitAndContinue"
      [] resp = "notFound"    -> IF tryNo < retriesArg THEN "waitAndContinue"
                                                         ELSE "return"
      [] resp \in {"otherError", "errorWithoutMessage"} -> "return"
      [] resp = "result"      -> "return"
      [] resp = "throws"      -> IF tryNo < retriesArg THEN "waitAndContinue"
                                                         ELSE "continue"

\* What the body of the loop does with the response of an attempt.
\* data.error.message.includes(...) on an error without a message throws
\* inside the try, so that response ends in the catch block like a network
\* error.
AttemptEnds(resp, tryNo, retriesArg) ==
    CASE resp = "rateLimited" -> "waitAndContinue"
      [] resp = "notFound"    -> IF tryNo < retriesArg THEN "waitAndContinue"
                                                         ELSE "return"
      [] resp = "otherError"  -> "return"
      [] resp = "result"      -> "return"
      [] resp \in {"errorWithoutMessage", "throws"} ->
           IF tryNo < retriesArg THEN "waitAndContinue" ELSE "continue"

\* getTokenMetadata(tokenAddress, maxRetries) is called: attempt = 0 and
\* the first request goes out (maxRetries >= 0).
GetTokenMetadataCalled(retriesArg) ==
    /\ chainCall.pc \in {"idle", "done"}
    /\ chainCall' = [fn |-> "getTokenMetadata", pc |-> "request", requests |-> 1,
                     responses |-> << >>, waits |-> << >>, result |-> "none",
                     maxRetries |-> retriesArg]
    /\ UNCHANGED fetcherRetries
    /\ UNCHANGED << listenerVars, fetchVars, lineVars, storeVars, syncVars, imageVars,
                    lifecycleVars, runVars >>

\* attempt++ and the test attempt <= maxRetries: the next request, or the
\* return null after the loop.
NextAttempt(call) ==
    IF call.requests <= call.maxRetries
      THEN [call EXCEPT !.pc = "request", !.requests = @ + 1]
      ELSE [call EXCEPT !.pc = "done", !.result = "null"]

\* The awaited request of attempt requests - 1 settles.
AssetResponds(resp) ==
    /\ chainCall.fn = "getTokenMetadata"
    /\ chainCall.pc = "request"
    /\ LET tryNo == chainCall.requests - 1
           ends    == AttemptEnds(resp, tryNo, chainCall.maxRetries)
           seen    == [chainCall EXCEPT !.responses = Append(@, resp)]
       IN  chainCall' =
             CASE ends = "return" ->
                    [seen EXCEPT !.pc = "done",
                                 !.result = IF resp = "result" THEN "metadata"
                                                               ELSE "null"]
               [] ends = "waitAndContinue" ->
                    [seen EXCEPT !.pc = "wait",
                                 !.waits = Append(@, AssetDelay(resp, tryNo))]
               [] ends = "continue" -> NextAttempt(seen)
    /\ UNCHANGED fetcherRetries
    /\ UNCHANGED << listenerVars, fetchVars, lineVars, storeVars, syncVars, imageVars,
                    lifecycleVars, runVars >>

\* The setTimeout of the backoff fires and the loop goes on.
AssetDelayElapsed ==
    /\ chainCall.fn = "getTokenMetadata"
    /\ chainCall.pc = "wait"
    /\ chainCall' = NextAttempt(chainCall)
    /\ UNCHANGED fetcherRetries
    /\ UNCHANGED << listenerVars, fetchVars, lineVars, storeVars, syncVars, imageVars,
                    lifecycleVars, runVars >>

NextAsset ==
    \/ \E retriesArg \in 0 .. MaxRetriesArg : GetTokenMetadataCalled(retriesArg)
    \/ \E resp \in AssetResponses : AssetResponds(resp)
    \/ AssetDelayElapsed

SpecAsset == InitChain /\ [][NextAsset]_vars

\* C37: a call of getTokenMetadata sends at most maxRetries + 1 requests;
\* when every attempt is used up without a result it returns null; and an
\* error that is neither a rate limit nor not-found is the last response
\* of the call: the call returns null and no request follows it.
C37_BoundedAndNoRetryOnOtherErrors ==
    chainCall.fn = "getTokenMetadata"
    => /\ chainCall.requests <= chainCall.maxRetries + 1
       /\ (chainCall.pc = "done" /\ LastResponse # "result")
            => chainCall.result = "null"
       /\ \A i \in DOMAIN chainCall.responses :
             chainCall.responses[i] \in {"otherError", "errorWithoutMessage"}
             => /\ i = Len(chainCall.responses)
                /\ chainCall.pc = "done"
                /\ chainCall.result = "null"
====
